---- MODULE Spec2Model ----
(***************************************************************************)
(* A model of opensrc's package and repository resolution engine           *)
(* (src/src/lib/registries/*.ts): version selection, repository URL        *)
(* extraction and normalization, one action per resolver.                  *)
(*                                                                         *)
(* Strings are TLA+ strings, handled character by character with Len,      *)
(* SubSeq and \o, so that the regular expressions, splits and slices of    *)
(* the TypeScript are computed rather than assumed.  An absent value       *)
(* (undefined / null) is the empty string: every place of the source that  *)
(* reads one tests it for truthiness, which "" fails in the same way.      *)
(***************************************************************************)
EXTENDS Integers, Sequences, FiniteSets, TLC

VARIABLES
    registry,          \* the registry whose resolver is called
    packageName,       \* name argument of the resolver
    requestedVersion,  \* version argument ("" when the caller gave none)
    allowPrerelease,   \* options.allowPrerelease (NuGet only)
    metadata,          \* what the registry's endpoints answer in this call
    pc,                \* "start", "done" once the resolver ran, "fetched" after the clone
    outcome,           \* the ResolvedPackage returned or the Error thrown
    requests,          \* the requests a NuGet or Maven resolution made, in order
    cmpA, cmpB,        \* arguments of compareNuGetVersions
    cmpPc, cmpResult,  \* its position and the number it returned
    normalizer,        \* which registry's URL normalizer is applied
    rawUrl,            \* the candidate URL handed to it
    normPc,            \* "raw", "once" or "twice"
    normOnce,          \* normalize(rawUrl)
    normTwice,         \* normalize(normalize(rawUrl))
    disk,              \* the directories under opensrc/repos and the ref each holds
    cloneAttempts,     \* the tags the clone step passed to git clone, in order
    cloneLog,          \* every git clone it ran, in order, with how it ended
    fetchResult,       \* the FetchResult of fetchSource
    repoSpec,          \* the RepoSpec handed to resolveRepo
    repoApi,           \* what the host's repository endpoint answers
    repoPc,            \* "spec" before resolveRepo ran, "done" after
    resolvedRepo,      \* the ResolvedRepo returned or the Error thrown
    parser,            \* which parser is applied
    specText,          \* the specifier handed to it
    parsePc,           \* "text", "parsed", or "resolving" once resolvePackage is called
    parseResult,       \* what the parser returned or threw
    dispatched,        \* the resolver calls made, each the start of a registry request
    index,             \* sources.json: the package and the repository entries
    permission,        \* allowFileModifications of settings.json, "unset" when absent
    projectFiles,      \* .gitignore, tsconfig.json and AGENTS.md
    ran,               \* what the last command or call reported
    batch,             \* the specifiers handed to one fetchCommand
    world,             \* what the registries and the hosts answer to it
    results            \* the FetchResults it printed

resolverVars == <<registry, packageName, requestedVersion, allowPrerelease,
                  metadata, pc, outcome, requests>>
cmpVars == <<cmpA, cmpB, cmpPc, cmpResult>>
normVars == <<normalizer, rawUrl, normPc, normOnce, normTwice>>
fetchVars == <<disk, cloneAttempts, cloneLog, fetchResult>>
repoVars == <<repoSpec, repoApi, repoPc, resolvedRepo>>
parseVars == <<parser, specText, parsePc, parseResult, dispatched>>
storeVars == <<index, permission, projectFiles, ran, batch, world, results>>
vars == <<resolverVars, cmpVars, normVars, fetchVars, repoVars, parseVars, storeVars>>

-----------------------------------------------------------------------------
(* JavaScript string primitives *)

Ch(s, i) == SubSeq(s, i, i)

Min(S) == CHOOSE x \in S : \A y \in S : x <= y

Max(S) == CHOOSE x \in S : \A y \in S : x >= y

\* s.indexOf(t, from) with 1-based positions; 0 when t does not occur
IndexOfFrom(s, t, from) ==
    LET I == {i \in from..(Len(s) - Len(t) + 1) : SubSeq(s, i, i + Len(t) - 1) = t}
    IN  IF I = {} THEN 0 ELSE Min(I)

IndexOf(s, t) == IndexOfFrom(s, t, 1)

\* s.lastIndexOf(t), 1-based; 0 when t does not occur
LastIndexOf(s, t) ==
    LET I == {i \in 1..(Len(s) - Len(t) + 1) : SubSeq(s, i, i + Len(t) - 1) = t}
    IN  IF I = {} THEN 0 ELSE Max(I)

Includes(s, t) == IndexOf(s, t) > 0

StartsWith(s, t) == Len(s) >= Len(t) /\ SubSeq(s, 1, Len(t)) = t

EndsWith(s, t) == Len(s) >= Len(t) /\ SubSeq(s, Len(s) - Len(t) + 1, Len(s)) = t

\* s.slice(n) for a 0-based n
SliceFrom(s, n) == SubSeq(s, n + 1, Len(s))

\* s.replace(/^t/, "")
StripPrefix(s, t) == IF StartsWith(s, t) THEN SliceFrom(s, Len(t)) ELSE s

\* s.replace(/^t/, r)
ReplacePrefix(s, t, r) == IF StartsWith(s, t) THEN r \o SliceFrom(s, Len(t)) ELSE s

\* s.replace(/t$/, "")
StripSuffix(s, t) == IF EndsWith(s, t) THEN SubSeq(s, 1, Len(s) - Len(t)) ELSE s

\* s.replace(/t.*$/, ""): cut at the first occurrence of t
CutAt(s, t) ==
    LET i == IndexOf(s, t) IN IF i = 0 THEN s ELSE SubSeq(s, 1, i - 1)

RECURSIVE StripTrailing(_, _)
\* s.replace(/c+$/, "")
StripTrailing(s, c) ==
    IF Len(s) > 0 /\ Ch(s, Len(s)) = c THEN StripTrailing(SubSeq(s, 1, Len(s) - 1), c) ELSE s

RECURSIVE StripLeading(_, _)
StripLeading(s, c) ==
    IF Len(s) > 0 /\ Ch(s, 1) = c THEN StripLeading(SubSeq(s, 2, Len(s)), c) ELSE s

\* s.trim()
Trim(s) == StripLeading(StripTrailing(s, " "), " ")

RECURSIVE Split(_, _)
\* s.split(c) for a one-character separator c
Split(s, c) ==
    LET i == IndexOf(s, c)
    IN  IF i = 0 THEN <<s>>
        ELSE <<SubSeq(s, 1, i - 1)>> \o Split(SubSeq(s, i + 1, Len(s)), c)

\* s.split(c, n): the first n pieces of the full split, the rest dropped
SplitLimit(s, c, n) ==
    LET all == Split(s, c) IN SubSeq(all, 1, IF Len(all) < n THEN Len(all) ELSE n)

\* parts[i] of a destructured array: undefined ("") past its end
At(parts, i) == IF i <= Len(parts) THEN parts[i] ELSE ""

\* array.filter(Boolean) on an array of strings
RECURSIVE FilterNonEmpty(_)
FilterNonEmpty(parts) ==
    IF parts = <<>> THEN <<>>
    ELSE (IF Head(parts) = "" THEN <<>> ELSE <<Head(parts)>>) \o FilterNonEmpty(Tail(parts))

Digits == "0123456789"
LowerLetters == "abcdefghijklmnopqrstuvwxyz"
UpperLetters == "ABCDEFGHIJKLMNOPQRSTUVWXYZ"

IsDigit(c) == Len(c) = 1 /\ Includes(Digits, c)

\* /^\d+$/.test(s)
IsNumeric(s) == Len(s) > 0 /\ \A i \in 1..Len(s) : IsDigit(Ch(s, i))

RECURSIVE StrToNat(_)
\* Number(s) for a string of digits
StrToNat(s) ==
    IF s = "" THEN 0
    ELSE 10 * StrToNat(SubSeq(s, 1, Len(s) - 1)) + (IndexOf(Digits, Ch(s, Len(s))) - 1)

\* the longest run of digits s starts with
DigitPrefix(s) ==
    LET stop == {i \in 1..Len(s) : ~IsDigit(Ch(s, i))}
    IN  IF stop = {} THEN s ELSE SubSeq(s, 1, Min(stop) - 1)

\* Number.parseInt(s, 10) || 0: the leading digits, NaN (no digit) giving 0
ParseIntOrZero(s) == StrToNat(DigitPrefix(s))

LowerChar(c) ==
    LET i == IndexOf(UpperLetters, c) IN IF i = 0 THEN c ELSE Ch(LowerLetters, i)

RECURSIVE ToLowerCase(_)
ToLowerCase(s) ==
    IF s = "" THEN "" ELSE LowerChar(Ch(s, 1)) \o ToLowerCase(SubSeq(s, 2, Len(s)))

\* The order String.prototype.localeCompare gives the characters used here
\* (root collation): punctuation, then digits, then letters; two strings that
\* differ only in case order the lower-case one first.
CollationOrder == "_-:/.@+0123456789abcdefghijklmnopqrstuvwxyz"

Rank(c) == IndexOf(CollationOrder, LowerChar(c))

RECURSIVE ComparePrimary(_, _)
ComparePrimary(a, b) ==
    IF a = "" /\ b = "" THEN 0
    ELSE IF a = "" THEN -1
    ELSE IF b = "" THEN 1
    ELSE IF Rank(Ch(a, 1)) < Rank(Ch(b, 1)) THEN -1
    ELSE IF Rank(Ch(a, 1)) > Rank(Ch(b, 1)) THEN 1
    ELSE ComparePrimary(SubSeq(a, 2, Len(a)), SubSeq(b, 2, Len(b)))

RECURSIVE CompareCase(_, _)
CompareCase(a, b) ==
    IF a = "" \/ b = "" THEN 0
    ELSE IF Ch(a, 1) = Ch(b, 1) THEN CompareCase(SubSeq(a, 2, Len(a)), SubSeq(b, 2, Len(b)))
    ELSE IF LowerChar(Ch(a, 1)) = Ch(a, 1) THEN -1 ELSE 1

\* a.localeCompare(b)
LocaleCompare(a, b) ==
    LET p == ComparePrimary(a, b) IN IF p # 0 THEN p ELSE CompareCase(a, b)

Sign(n) == IF n < 0 THEN -1 ELSE IF n > 0 THEN 1 ELSE 0

-----------------------------------------------------------------------------
(* NuGet version ordering: src/src/lib/registries/nuget.ts *)

toComparableVersion(version) == ToLowerCase(Trim(version))

isPrereleaseVersion(version) == Includes(version, "-")

RECURSIVE comparePrereleaseParts(_, _, _)
comparePrereleaseParts(aParts, bParts, i) ==
    IF i > Max({Len(aParts), Len(bParts)}) THEN 0
    ELSE IF i > Len(aParts) THEN -1
    ELSE IF i > Len(bParts) THEN 1
    ELSE LET aPart == aParts[i]
             bPart == bParts[i]
             aNum == IsNumeric(aPart)
             bNum == IsNumeric(bPart)
         IN  IF aNum /\ bNum
             THEN (IF StrToNat(aPart) # StrToNat(bPart)
                   THEN StrToNat(aPart) - StrToNat(bPart)
                   ELSE comparePrereleaseParts(aParts, bParts, i + 1))
             ELSE IF aNum /\ ~bNum THEN -1
             ELSE IF ~aNum /\ bNum THEN 1
             ELSE IF LocaleCompare(aPart, bPart) # 0 THEN LocaleCompare(aPart, bPart)
             ELSE comparePrereleaseParts(aParts, bParts, i + 1)

comparePrereleaseIdentifiers(a, b) ==
    comparePrereleaseParts(Split(a, "."), Split(b, "."), 1)

\* aCore.split(".").map((part) => Number.parseInt(part, 10) || 0)
coreParts(core) ==
    LET parts == Split(core, ".") IN [i \in 1..Len(parts) |-> ParseIntOrZero(parts[i])]

RECURSIVE compareCoreParts(_, _, _)
compareCoreParts(aCoreParts, bCoreParts, i) ==
    IF i > Max({Len(aCoreParts), Len(bCoreParts)}) THEN 0
    ELSE LET aVal == IF i <= Len(aCoreParts) THEN aCoreParts[i] ELSE 0
             bVal == IF i <= Len(bCoreParts) THEN bCoreParts[i] ELSE 0
         IN  IF aVal # bVal THEN aVal - bVal
             ELSE compareCoreParts(aCoreParts, bCoreParts, i + 1)

\* the tail of compareNuGetVersions: prerelease presence, identifiers, metadata
CompareAfterCore(coreCmp, aPre, bPre, aMeta, bMeta) ==
    IF coreCmp # 0 THEN coreCmp
    ELSE IF aPre = "" /\ bPre # "" THEN 1
    ELSE IF aPre # "" /\ bPre = "" THEN -1
    ELSE IF aPre # "" /\ bPre # "" /\ comparePrereleaseIdentifiers(aPre, bPre) # 0
    THEN comparePrereleaseIdentifiers(aPre, bPre)
    ELSE LocaleCompare(aMeta, bMeta)

\* [aCore, aPre] = aMain.split("-", 2): what follows a second hyphen is dropped
CompareMain(aDash, bDash, aMeta, bMeta) ==
    CompareAfterCore(compareCoreParts(coreParts(At(aDash, 1)), coreParts(At(bDash, 1)), 1),
                     At(aDash, 2), At(bDash, 2), aMeta, bMeta)

\* [aMain, aMeta] = a.split("+", 2)
CompareSplit(aSplit, bSplit) ==
    CompareMain(SplitLimit(At(aSplit, 1), "-", 2), SplitLimit(At(bSplit, 1), "-", 2),
                At(aSplit, 2), At(bSplit, 2))

compareNuGetVersions(a, b) == CompareSplit(SplitLimit(a, "+", 2), SplitLimit(b, "+", 2))

-----------------------------------------------------------------------------
(* Repository URL normalizers.  A value used more than once is passed as an
   operator argument, which TLC evaluates once. *)

\* s.replace(/^t/i, r) for a literal t given in lower case
ReplacePrefixCI(s, t, r) ==
    IF Len(s) >= Len(t) /\ ToLowerCase(SubSeq(s, 1, Len(t))) = t
    THEN r \o SliceFrom(s, Len(t)) ELSE s

\* s.replace(/t$/i, "") for a literal t given in lower case
StripSuffixCI(s, t) ==
    IF Len(s) >= Len(t) /\ ToLowerCase(SubSeq(s, Len(s) - Len(t) + 1, Len(s))) = t
    THEN SubSeq(s, 1, Len(s) - Len(t)) ELSE s

\* s.replace(/\/(tree|blob)\/.*$/, ""): cut at the leftmost of the two
CutAtTreeOrBlob(s) ==
    LET I == {i \in {IndexOf(s, "/tree/"), IndexOf(s, "/blob/")} : i > 0}
    IN  IF I = {} THEN s ELSE SubSeq(s, 1, Min(I) - 1)

\* the run of characters other than "/" that s starts with ([^/]+, "" if none)
SegmentPrefix(s) == CutAt(s, "/")

(* new URL(s): the WHATWG parser on the inputs met here.  A scheme, then for
   http(s) any run of slashes, then [userinfo@]host[:port], path, ?query,
   #fragment.  Percent-encoding, dot segments and IPv6 hosts are left out. *)
SchemeChars == LowerLetters \o UpperLetters \o Digits \o "+-."

SpecialSchemes == {"http", "https", "ftp", "ws", "wss"}

DefaultPort(scheme) ==
    CASE scheme = "http" -> "80" [] scheme = "https" -> "443" [] scheme = "ftp" -> "21"
      [] scheme = "ws" -> "80" [] scheme = "wss" -> "443" [] OTHER -> ""

InvalidUrl ==
    [valid |-> FALSE, scheme |-> "", userinfo |-> "", hostname |-> "", port |-> "",
     pathname |-> "", search |-> "", hash |-> ""]

\* the first position of s holding one of the characters of stops; Len(s)+1 if none
FirstOf(s, stops) ==
    LET I == {i \in 1..Len(s) : Includes(stops, Ch(s, i))}
    IN  IF I = {} THEN Len(s) + 1 ELSE Min(I)

UrlPort(hostport, portColon) ==
    IF portColon = 0 THEN "" ELSE SliceFrom(hostport, portColon)

UrlHostname(hostport, portColon) ==
    IF portColon = 0 THEN hostport ELSE SubSeq(hostport, 1, portColon - 1)

UrlRecord(scheme, special, userinfo, host, portText, path, query, fragment) ==
    IF \/ ~(portText = "" \/ (IsNumeric(portText) /\ StrToNat(portText) <= 65535))
       \/ (special /\ host = "")
    THEN InvalidUrl
    ELSE [valid |-> TRUE, scheme |-> scheme, userinfo |-> userinfo,
          hostname |-> IF special THEN ToLowerCase(host) ELSE host,
          port |-> IF portText = DefaultPort(scheme) THEN "" ELSE portText,
          pathname |-> IF special /\ path = "" THEN "/" ELSE path,
          search |-> IF query = "?" THEN "" ELSE query,
          hash |-> IF fragment = "#" THEN "" ELSE fragment]

ParseQuery(scheme, special, userinfo, hostport, path, afterPath, hashAt) ==
    UrlRecord(scheme, special, userinfo,
              UrlHostname(hostport, LastIndexOf(hostport, ":")),
              UrlPort(hostport, LastIndexOf(hostport, ":")),
              path,
              IF hashAt = 0 THEN afterPath ELSE SubSeq(afterPath, 1, hashAt - 1),
              IF hashAt = 0 THEN "" ELSE SliceFrom(afterPath, hashAt - 1))

ParsePath(scheme, special, authority, at, tail, pathEnd) ==
    ParseQuery(scheme, special, SubSeq(authority, 1, at - 1), SliceFrom(authority, at),
               SubSeq(tail, 1, pathEnd - 1), SliceFrom(tail, pathEnd - 1),
               IndexOf(SliceFrom(tail, pathEnd - 1), "#"))

ParseAuthority(scheme, special, rest, authEnd) ==
    ParsePath(scheme, special, SubSeq(rest, 1, authEnd - 1),
              LastIndexOf(SubSeq(rest, 1, authEnd - 1), "@"),
              SliceFrom(rest, authEnd - 1),
              FirstOf(SliceFrom(rest, authEnd - 1), "?#"))

ParseHierarchy(scheme, special, rest) ==
    ParseAuthority(scheme, special, rest, FirstOf(rest, "/?#"))

ParseAfterScheme(scheme, afterScheme) ==
    IF scheme \in SpecialSchemes
    THEN ParseHierarchy(scheme, TRUE, StripLeading(afterScheme, "/"))
    ELSE IF StartsWith(afterScheme, "//")
    THEN ParseHierarchy(scheme, FALSE, SliceFrom(afterScheme, 2))
    ELSE [InvalidUrl EXCEPT !.valid = TRUE, !.scheme = scheme, !.pathname = afterScheme]

ParseScheme(s, colon) ==
    IF /\ colon > 1
       /\ Includes(LowerLetters, LowerChar(Ch(s, 1)))
       /\ \A i \in 1..(colon - 1) : Includes(SchemeChars, Ch(s, i))
    THEN ParseAfterScheme(ToLowerCase(SubSeq(s, 1, colon - 1)), SliceFrom(s, colon))
    ELSE InvalidUrl

ParseUrl(s) == ParseScheme(s, IndexOf(s, ":"))

\* url.toString()
Href(url) ==
    url.scheme \o "://"
      \o (IF url.userinfo = "" THEN "" ELSE url.userinfo \o "@")
      \o url.hostname
      \o (IF url.port = "" THEN "" ELSE ":" \o url.port)
      \o url.pathname \o url.search \o url.hash

ALLOWED_GIT_HOSTS == {"github.com", "gitlab.com", "bitbucket.org"}

\* s.replace(/^git@github.com:/i, "https://github.com/"): the dot matches any character
ReplaceGitAtGithub(s) ==
    IF /\ Len(s) >= 15
       /\ ToLowerCase(SubSeq(s, 1, 10)) = "git@github"
       /\ ToLowerCase(SubSeq(s, 12, 15)) = "com:"
    THEN "https://github.com/" \o SliceFrom(s, 15) ELSE s

\* the chain of replace calls of normalizeNuGetRepoUrl
NuGetRewrite(trimmed) ==
    StripTrailing(
      StripSuffixCI(
        ReplaceGitAtGithub(
          ReplacePrefixCI(
            ReplacePrefixCI(
              ReplacePrefixCI(StripPrefix(trimmed, "git+"), "git://", "https://"),
              "ssh://git@", "https://"),
            "git+ssh://git@", "https://")),
        ".git"),
      "/")

\* a normalizer that keeps the first two segments of a longer path
NuGetFromFirstTwoParts(url, cleanedParts) ==
    IF Len(cleanedParts) < 2 THEN ""
    ELSE StripTrailing(
           Href([url EXCEPT !.hash = "", !.search = "",
                            !.pathname = "/" \o cleanedParts[1] \o "/"
                                         \o StripSuffixCI(cleanedParts[2], ".git")]),
           "/")

\* the end of normalizeNuGetRepoUrl: the segment count, the .git of the repo, the string
NuGetFromCleanedParts(url, cleanedParts) ==
    IF Len(cleanedParts) # 2 THEN ""
    ELSE StripTrailing(
           Href([url EXCEPT !.hash = "", !.search = "",
                            !.pathname = "/" \o cleanedParts[1] \o "/"
                                         \o StripSuffixCI(cleanedParts[2], ".git")]),
           "/")

\* the /tree and /blob case: the path is set to its first two segments and split again
NuGetFromParts(url, parts) ==
    NuGetFromCleanedParts(url,
      FilterNonEmpty(Split(IF Len(parts) >= 4 /\ parts[3] \in {"tree", "blob"}
                           THEN "/" \o parts[1] \o "/" \o parts[2]
                           ELSE url.pathname, "/")))

NuGetFromUrl(url) ==
    IF ~url.valid THEN ""
    ELSE IF ToLowerCase(url.hostname) \notin ALLOWED_GIT_HOSTS THEN ""
    ELSE NuGetFromParts(url, FilterNonEmpty(Split(url.pathname, "/")))

NuGetFromTrimmed(trimmed) ==
    IF trimmed = "" THEN "" ELSE NuGetFromUrl(ParseUrl(NuGetRewrite(trimmed)))

normalizeNuGetRepoUrl(raw) == NuGetFromTrimmed(Trim(raw))

\* isGitRepoUrl of crates.ts, pypi.ts, packagist.ts and maven.ts
isGitRepoUrl(url) ==
    Includes(url, "github.com") \/ Includes(url, "gitlab.com") \/ Includes(url, "bitbucket.org")

\* normalizeRepoUrl of crates.ts, pypi.ts and packagist.ts
normalizeRepoUrl(url) ==
    CutAt(CutAt(StripSuffix(StripTrailing(url, "/"), ".git"), "/tree/"), "/blob/")

\* the chain of replace calls of npm.ts's extractRepoUrl
NpmRewrite(repoUrl) ==
    StripSuffix(
      ReplacePrefix(
        ReplacePrefix(
          ReplacePrefix(StripPrefix(repoUrl, "git+"), "git://", "https://"),
          "git+ssh://git@", "https://"),
        "ssh://git@", "https://"),
      ".git")

NpmShorthand(url) ==
    IF StartsWith(url, "github:") THEN "https://github.com/" \o SliceFrom(url, 7) ELSE url

normalizeNpmUrl(repoUrl) == NpmShorthand(NpmRewrite(repoUrl))

\* the chain of replace calls of packagist.ts's extractRepoUrl
PackagistRewrite(sourceUrl) ==
    StripSuffix(
      ReplacePrefix(
        ReplacePrefix(
          ReplacePrefix(StripPrefix(sourceUrl, "git+"), "git://", "https://"),
          "git@github.com:", "https://github.com/"),
        "git@gitlab.com:", "https://gitlab.com/"),
      ".git")

PackagistKnownHost(url) == IF isGitRepoUrl(url) THEN normalizeRepoUrl(url) ELSE ""

\* extractRepoUrl of packagist.ts on the version's source.url
normalizePackagistUrl(sourceUrl) ==
    IF sourceUrl = "" THEN "" ELSE PackagistKnownHost(PackagistRewrite(sourceUrl))

\* raw.replace(/^scm:[^:]+:/, "")
StripScmPrefix(raw) ==
    IF StartsWith(raw, "scm:") /\ IndexOfFrom(raw, ":", 5) > 5
    THEN SliceFrom(raw, IndexOfFrom(raw, ":", 5)) ELSE raw

\* the chain of replace calls of normalizeScmUrl, up to the /tree and /blob cut
ScmRewrite(raw) ==
    CutAtTreeOrBlob(
      StripTrailing(
        StripSuffix(
          ReplacePrefix(
            ReplacePrefix(
              ReplacePrefix(
                ReplacePrefix(
                  ReplacePrefix(StripScmPrefix(raw), "git://", "https://"),
                  "ssh://git@github.com", "https://github.com"),
                "ssh://git@gitlab.com", "https://gitlab.com"),
              "git@github.com:", "https://github.com/"),
            "git@gitlab.com:", "https://gitlab.com/"),
          ".git"),
        "/"))

(* url.match(/^https?:\/\/(github|gitlab)\.com\/([^/]+)\/([^/]+)/): the three
   groups, or <<>> when the URL does not match *)
GhMatchRepo(host, owner, afterOwner) ==
    IF owner # "" /\ StartsWith(afterOwner, "/") /\ SegmentPrefix(SliceFrom(afterOwner, 1)) # ""
    THEN <<host, owner, SegmentPrefix(SliceFrom(afterOwner, 1))>>
    ELSE <<>>

GhMatchOwner(host, afterHost) ==
    GhMatchRepo(host, SegmentPrefix(afterHost), SliceFrom(afterHost, Len(SegmentPrefix(afterHost))))

GhMatchHost(afterScheme) ==
    IF StartsWith(afterScheme, "github.com/") THEN GhMatchOwner("github", SliceFrom(afterScheme, 11))
    ELSE IF StartsWith(afterScheme, "gitlab.com/") THEN GhMatchOwner("gitlab", SliceFrom(afterScheme, 11))
    ELSE <<>>

GhMatch(url) ==
    IF StartsWith(url, "https://") THEN GhMatchHost(SliceFrom(url, 8))
    ELSE IF StartsWith(url, "http://") THEN GhMatchHost(SliceFrom(url, 7))
    ELSE <<>>

ScmFromMatch(url, ghMatch) ==
    IF ghMatch # <<>>
    THEN "https://" \o ghMatch[1] \o ".com/" \o ghMatch[2] \o "/" \o StripSuffix(ghMatch[3], ".git")
    ELSE IF ~StartsWith(url, "http") THEN ""
    ELSE url

ScmFromUrl(url) == ScmFromMatch(url, GhMatch(url))

normalizeScmUrl(raw) == ScmFromUrl(ScmRewrite(raw))

\* what fetchScmInfo keeps of one element of the <scm> block
ScmKnownHost(url) == IF url # "" /\ isGitRepoUrl(url) THEN url ELSE ""

-----------------------------------------------------------------------------
(* What a resolver hands back: a ResolvedPackage, or the message of the Error
   it throws *)

Resolved(reg, name, version, repoUrl, repoDirectory, gitTag) ==
    [ok |-> TRUE, registry |-> reg, name |-> name, version |-> version,
     repoUrl |-> repoUrl, repoDirectory |-> repoDirectory, gitTag |-> gitTag]

Thrown(message) == [ok |-> FALSE, error |-> message]

\* `${response.status} ${response.statusText}` of the statuses met here
StatusLine(status) ==
    CASE status = "404" -> "404 Not Found"
      [] status = "500" -> "500 Internal Server Error"
      [] status = "403" -> "403 Forbidden"
      [] OTHER -> status

RECURSIVE Join(_, _)
\* parts.join(sep)
Join(parts, sep) ==
    IF Len(parts) = 0 THEN ""
    ELSE IF Len(parts) = 1 THEN parts[1]
    ELSE parts[1] \o sep \o Join(Tail(parts), sep)

\* parts.slice(0, n)
Take(parts, n) == SubSeq(parts, 1, Min({n, Len(parts)}))

\* parts.slice(-n)
TakeLast(parts, n) == SubSeq(parts, Max({1, Len(parts) - n + 1}), Len(parts))

\* how many versions an error message lists: slice(0, 5), slice(-5)
RecentCount == 5

-----------------------------------------------------------------------------
(* The NuGet resolver: src/src/lib/registries/nuget.ts *)

\* a candidate is { source, url }; null is the candidate with no source
NoCandidate == [source |-> "", url |-> ""]

RECURSIVE CollectLeaves(_, _, _)
\* the loop over index.items: inline items, or the page fetched by its @id
CollectLeaves(pages, i, leaves) ==
    IF i > Len(pages) THEN [error |-> "", leaves |-> leaves]
    ELSE IF Len(pages[i].items) > 0
    THEN CollectLeaves(pages, i + 1, leaves \o pages[i].items)
    ELSE IF pages[i].id = "" THEN CollectLeaves(pages, i + 1, leaves)
    ELSE IF pages[i].status # "200"
    THEN [error |-> "Failed to fetch NuGet metadata: " \o StatusLine(pages[i].status),
          leaves |-> <<>>]
    ELSE CollectLeaves(pages, i + 1, leaves \o pages[i].remoteItems)

fetchRegistrationLeaves(meta) ==
    IF meta.indexStatus = "404" THEN [error |-> "", leaves |-> <<>>]
    ELSE IF meta.indexStatus # "200"
    THEN [error |-> "Failed to fetch NuGet metadata: " \o StatusLine(meta.indexStatus),
          leaves |-> <<>>]
    ELSE CollectLeaves(meta.pages, 1, <<>>)

\* leaves.map(leaf => leaf.catalogEntry?.version)
LeafVersions(leaves) == [i \in 1..Len(leaves) |-> leaves[i].version]

RECURSIVE LatestFrom(_, _, _)
\* versions.reduce((latest, current) =>
\*     compareNuGetVersions(current, latest) > 0 ? current : latest)
LatestFrom(versions, i, latest) ==
    IF i > Len(versions) THEN latest
    ELSE LatestFrom(versions, i + 1,
                    IF compareNuGetVersions(versions[i], latest) > 0
                    THEN versions[i] ELSE latest)

Latest(versions) == LatestFrom(versions, 2, versions[1])

\* versions.filter(value => !isPrereleaseVersion(value))
StableOf(versions) == SelectSeq(versions, LAMBDA v : ~isPrereleaseVersion(v))

\* leaves.find(leaf => toComparableVersion(leaf.catalogEntry?.version ?? "")
\*     === wanted), as an index; 0 when there is none
FindLeafIndex(leaves, wanted) ==
    IF \E i \in 1..Len(leaves) : toComparableVersion(leaves[i].version) = wanted
    THEN Min({i \in 1..Len(leaves) : toComparableVersion(leaves[i].version) = wanted})
    ELSE 0

ResolveRequested(leaves, requested, matched) ==
    IF matched = 0 \/ leaves[IF matched = 0 THEN 1 ELSE matched].version = ""
    THEN [error |-> "Version \"" \o requested \o "\" not found on NuGet", version |-> ""]
    ELSE [error |-> "", version |-> leaves[matched].version]

ResolveLatest(versions, name, allowPre) ==
    IF Len(versions) = 0
    THEN [error |-> "NuGet package has no published versions", version |-> ""]
    ELSE IF allowPre THEN [error |-> "", version |-> Latest(versions)]
    ELSE IF Len(StableOf(versions)) > 0
    THEN [error |-> "", version |-> Latest(StableOf(versions))]
    ELSE [error |-> "No stable version found for \"" \o name
                    \o "\" on NuGet. Specify a prerelease version explicitly (for example: nuget:"
                    \o name \o "@<version>)",
          version |-> ""]

resolveVersionFromLeaves(leaves, name, requested, allowPre) ==
    IF requested # ""
    THEN ResolveRequested(leaves, requested,
                          FindLeafIndex(leaves, toComparableVersion(requested)))
    ELSE ResolveLatest(FilterNonEmpty(LeafVersions(leaves)), name, allowPre)

findLeafByVersion(leaves, version) == FindLeafIndex(leaves, toComparableVersion(version))

extractRepositoryFromLeaf(leaf) ==
    IF leaf.repoUrl # "" /\ (leaf.repoType = "" \/ ToLowerCase(leaf.repoType) = "git")
    THEN [source |-> "repository", url |-> leaf.repoUrl]
    ELSE IF leaf.projectUrl # ""
    THEN [source |-> "projectUrl", url |-> leaf.projectUrl]
    ELSE NoCandidate

\* the .nuspec as the fields its regular expressions read: whether there is a
\* <repository ...> tag, its type and url attributes, and <projectUrl>
extractRepositoryFromNuspecXml(xml) ==
    IF xml.repositoryTag /\ xml.url # "" /\ (xml.type = "" \/ ToLowerCase(xml.type) = "git")
    THEN [source |-> "repository", url |-> xml.url]
    ELSE IF xml.projectUrl # ""
    THEN [source |-> "projectUrl", url |-> xml.projectUrl]
    ELSE NoCandidate

fetchNuspecMetadata(meta) ==
    IF meta.nuspecStatus = "404" THEN [error |-> "", candidate |-> NoCandidate]
    ELSE IF meta.nuspecStatus # "200"
    THEN [error |-> "Failed to fetch .nuspec metadata: " \o StatusLine(meta.nuspecStatus),
          candidate |-> NoCandidate]
    ELSE [error |-> "", candidate |-> extractRepositoryFromNuspecXml(meta.nuspec)]

\* the selection with the leaf's project URL ranked above the nuspec's repository
LeafBeforeNuspec(leafCandidate, nuspecCandidate) ==
    IF leafCandidate.source # "" THEN leafCandidate ELSE nuspecCandidate

getRepositoryCandidate(leafCandidate, nuspecCandidate) ==
    IF leafCandidate.source = "repository" THEN leafCandidate
    ELSE IF nuspecCandidate.source = "repository" THEN nuspecCandidate
    ELSE IF leafCandidate.source = "projectUrl" THEN leafCandidate
    ELSE IF nuspecCandidate.source = "projectUrl" THEN nuspecCandidate
    ELSE NoCandidate

\* the last leaf whose candidate has the given source; 0 when there is none
LastLeafWithSource(leaves, source) ==
    IF \E i \in 1..Len(leaves) : extractRepositoryFromLeaf(leaves[i]).source = source
    THEN Max({i \in 1..Len(leaves) : extractRepositoryFromLeaf(leaves[i]).source = source})
    ELSE 0

getPackageLevelFallbackCandidate(leaves) ==
    IF LastLeafWithSource(leaves, "repository") # 0
    THEN extractRepositoryFromLeaf(leaves[LastLeafWithSource(leaves, "repository")])
    ELSE IF LastLeafWithSource(leaves, "projectUrl") # 0
    THEN extractRepositoryFromLeaf(leaves[LastLeafWithSource(leaves, "projectUrl")])
    ELSE NoCandidate

\* parseNuGetSpec(spec).name
NuGetSpecName(trimmed) ==
    IF LastIndexOf(trimmed, "@") > 1
    THEN Trim(SubSeq(trimmed, 1, LastIndexOf(trimmed, "@") - 1))
    ELSE trimmed

NuGetWithRepoUrl(name, resolvedVersion, selected, repoUrl) ==
    IF repoUrl = ""
    THEN Thrown("Invalid non-cloneable " \o selected.source \o " URL for \"" \o name
                \o "@" \o resolvedVersion \o "\": " \o selected.url)
    ELSE Resolved("nuget", name, resolvedVersion, repoUrl, "", "v" \o resolvedVersion)

NuGetWithSelected(name, resolvedVersion, selected) ==
    IF selected.source = ""
    THEN Thrown("No repository metadata found for \"" \o name \o "@" \o resolvedVersion
                \o "\" on NuGet (checked repository and projectUrl fields)")
    ELSE NuGetWithRepoUrl(name, resolvedVersion, selected,
                          normalizeNuGetRepoUrl(selected.url))

NuGetWithCandidate(name, leaves, resolvedVersion, candidate) ==
    NuGetWithSelected(name, resolvedVersion,
                      IF candidate.source # "" THEN candidate
                      ELSE getPackageLevelFallbackCandidate(leaves))

NuGetWithNuspec(name, leaves, resolvedVersion, leafCandidate, nuspec) ==
    IF nuspec.error # "" THEN Thrown(nuspec.error)
    ELSE NuGetWithCandidate(name, leaves, resolvedVersion,
                            getRepositoryCandidate(leafCandidate, nuspec.candidate))

NuGetWithLeafCandidate(name, meta, leaves, resolvedVersion, leafCandidate) ==
    NuGetWithNuspec(name, leaves, resolvedVersion, leafCandidate,
                    IF leafCandidate.source = "repository"
                    THEN [error |-> "", candidate |-> NoCandidate]
                    ELSE fetchNuspecMetadata(meta))

NuGetWithLeaf(name, meta, leaves, resolvedVersion, matchingLeaf) ==
    IF matchingLeaf = 0
    THEN Thrown("Version \"" \o resolvedVersion \o "\" not found for \"" \o name
                \o "\" on NuGet")
    ELSE NuGetWithLeafCandidate(name, meta, leaves, resolvedVersion,
                                extractRepositoryFromLeaf(leaves[matchingLeaf]))

NuGetWithVersion(name, meta, leaves, resolved) ==
    IF resolved.error # "" THEN Thrown(resolved.error)
    ELSE NuGetWithLeaf(name, meta, leaves, resolved.version,
                       findLeafByVersion(leaves, resolved.version))

NuGetWithLeaves(name, version, allowPre, meta, fetched) ==
    IF fetched.error # "" THEN Thrown(fetched.error)
    ELSE IF Len(fetched.leaves) = 0
    THEN Thrown("Package \"" \o name \o "\" not found on NuGet")
    ELSE NuGetWithVersion(name, meta, fetched.leaves,
                          resolveVersionFromLeaves(fetched.leaves, name, version, allowPre))

\* getNuGetResource(serviceIndex, typePrefix): the resources are named by the
\* prefix their @type starts with
NuGetWithName(name, version, allowPre, meta) ==
    IF name = "" THEN Thrown("NuGet package name is required")
    ELSE IF meta.serviceStatus # "200"
    THEN Thrown("Failed to fetch NuGet metadata: " \o StatusLine(meta.serviceStatus))
    ELSE IF "RegistrationsBaseUrl" \notin meta.resources
    THEN Thrown("NuGet service index does not provide required resource: RegistrationsBaseUrl")
    ELSE IF "PackageBaseAddress" \notin meta.resources
    THEN Thrown("NuGet service index does not provide required resource: PackageBaseAddress")
    ELSE NuGetWithLeaves(name, version, allowPre, meta, fetchRegistrationLeaves(meta))

resolveNuGetPackage(pkg, version, allowPre, meta) ==
    NuGetWithName(NuGetSpecName(Trim(pkg)), version, allowPre, meta)

\* The requests resolveNuGetPackage makes on the way, in order.  The pages
\* fetched by their @id, up to the first that fails
RECURSIVE PageFetches(_, _)
PageFetches(pages, i) ==
    IF i > Len(pages) THEN <<>>
    ELSE IF Len(pages[i].items) > 0 \/ pages[i].id = "" THEN PageFetches(pages, i + 1)
    ELSE IF pages[i].status # "200" THEN <<"page " \o pages[i].id>>
    ELSE <<"page " \o pages[i].id>> \o PageFetches(pages, i + 1)

\* the nuspec asked for whatever the leaf holds
NuspecAlways(leaves, resolvedVersion, matchingLeaf) ==
    IF matchingLeaf = 0 THEN <<>> ELSE <<"nuspec " \o resolvedVersion>>

NuspecFetches(leaves, resolvedVersion, matchingLeaf) ==
    IF matchingLeaf = 0 THEN <<>>
    ELSE IF extractRepositoryFromLeaf(leaves[matchingLeaf]).source = "repository" THEN <<>>
    ELSE <<"nuspec " \o resolvedVersion>>

VersionFetches(leaves, resolved) ==
    IF resolved.error # "" THEN <<>>
    ELSE NuspecFetches(leaves, resolved.version, findLeafByVersion(leaves, resolved.version))

LeafFetches(name, version, allowPre, fetched) ==
    IF fetched.error # "" \/ Len(fetched.leaves) = 0 THEN <<>>
    ELSE VersionFetches(fetched.leaves,
                        resolveVersionFromLeaves(fetched.leaves, name, version, allowPre))

RegistrationFetches(meta) ==
    IF meta.indexStatus # "200" THEN <<"registration index">>
    ELSE <<"registration index">> \o PageFetches(meta.pages, 1)

NuGetFetches(name, version, allowPre, meta) ==
    IF name = "" THEN <<>>
    ELSE IF \/ meta.serviceStatus # "200"
            \/ "RegistrationsBaseUrl" \notin meta.resources
            \/ "PackageBaseAddress" \notin meta.resources
    THEN <<"service index">>
    ELSE <<"service index">> \o RegistrationFetches(meta)
         \o LeafFetches(name, version, allowPre, fetchRegistrationLeaves(meta))

-----------------------------------------------------------------------------
(* The npm resolver: src/src/lib/registries/npm.ts *)

\* an absent repository object
NoRepository == [present |-> FALSE, url |-> "", directory |-> ""]

\* info.versions[version], as an index into the versions in key order; 0 when
\* the object has no such key
VersionIndex(versions, version) ==
    IF \E i \in 1..Len(versions) : versions[i].version = version
    THEN Min({i \in 1..Len(versions) : versions[i].version = version})
    ELSE 0

\* versionInfo?.repository || info.repository
NpmRepository(info, versionIndex) ==
    IF versionIndex # 0 /\ info.versions[versionIndex].repository.present
    THEN info.versions[versionIndex].repository
    ELSE info.repository

NpmExtractFrom(repo) ==
    IF repo.url = "" THEN [found |-> FALSE, url |-> "", directory |-> ""]
    ELSE [found |-> TRUE, url |-> normalizeNpmUrl(repo.url), directory |-> repo.directory]

\* extractRepoUrl(info, version) of npm.ts
NpmExtractRepoUrl(info, version) ==
    NpmExtractFrom(NpmRepository(info, IF version = "" THEN 0
                                       ELSE VersionIndex(info.versions, version)))

getLatestVersion(info) == info.latest

NpmWithRepo(pkg, resolvedVersion, repo) ==
    IF ~repo.found
    THEN Thrown("No repository URL found for \"" \o pkg \o "@" \o resolvedVersion
                \o "\". This package may not have its source published.")
    ELSE Resolved("npm", pkg, resolvedVersion, repo.url, repo.directory,
                  "v" \o resolvedVersion)

NpmWithVersion(pkg, info, resolvedVersion) ==
    IF VersionIndex(info.versions, resolvedVersion) = 0
    THEN Thrown("Version \"" \o resolvedVersion \o "\" not found for \"" \o pkg
                \o "\". Recent versions: "
                \o Join(TakeLast([i \in 1..Len(info.versions) |-> info.versions[i].version],
                                 RecentCount), ", "))
    ELSE NpmWithRepo(pkg, resolvedVersion, NpmExtractRepoUrl(info, resolvedVersion))

resolveNpmPackage(pkg, version, info) ==
    IF info.status = "404" THEN Thrown("Package \"" \o pkg \o "\" not found on npm")
    ELSE IF info.status # "200"
    THEN Thrown("Failed to fetch package info: " \o StatusLine(info.status))
    ELSE NpmWithVersion(pkg, info, IF version # "" THEN version ELSE getLatestVersion(info))

-----------------------------------------------------------------------------
(* Insertion of one element into a list kept in the order of a sort
   comparator; Array.prototype.sort is stable, so an element goes after the
   last one it does not sort before *)

\* the comparator of getAvailableVersions: newest created_at first
CratesNewerFirst(a, b) == b.created_at - a.created_at < 0

\* the comparator of getAvailableVersions; time is the epoch value of the
\* version's time, 0 when the version has none
PackagistNewerFirst(a, b) ==
    IF a.time # 0 /\ b.time # 0 THEN b.time - a.time < 0
    ELSE LocaleCompare(b.version_normalized, a.version_normalized) < 0

\* the comparator of getVersions: latest upload_time first
PyPINewerFirst(a, b) == LocaleCompare(b.upload_time, a.upload_time) < 0

\* the sort comparators by name: whether a sorts before b
SortBefore(order, a, b) ==
    CASE order = "crates" -> CratesNewerFirst(a, b)
      [] order = "packagist" -> PackagistNewerFirst(a, b)
      [] order = "pypi" -> PyPINewerFirst(a, b)

\* where pivot goes in sorted: after the last element it does not sort before
InsertAt(sorted, pivot, order) ==
    IF \A i \in 1..Len(sorted) : SortBefore(order, pivot, sorted[i]) THEN 0
    ELSE Max({i \in 1..Len(sorted) : ~SortBefore(order, pivot, sorted[i])})

InsertSorted(sorted, pivot, at) ==
    SubSeq(sorted, 1, at) \o <<pivot>> \o SubSeq(sorted, at + 1, Len(sorted))

InsertInto(sorted, pivot, order) == InsertSorted(sorted, pivot, InsertAt(sorted, pivot, order))

RECURSIVE SortedBy(_, _)
\* items.sort(comparator)
SortedBy(items, order) ==
    IF Len(items) <= 1 THEN items
    ELSE InsertInto(SortedBy(SubSeq(items, 1, Len(items) - 1), order), items[Len(items)], order)

-----------------------------------------------------------------------------
(* The crates.io resolver: src/src/lib/registries/crates.ts *)

\* extractRepoUrl(crate) of crates.ts; "" is null
CratesExtractRepoUrl(crate) ==
    IF crate.repository # "" /\ isGitRepoUrl(crate.repository)
    THEN normalizeRepoUrl(crate.repository)
    ELSE IF crate.homepage # "" /\ isGitRepoUrl(crate.homepage)
    THEN normalizeRepoUrl(crate.homepage)
    ELSE ""

CratesAvailableVersions(versions) ==
    LET sorted == SortedBy(SelectSeq(versions, LAMBDA v : ~v.yanked), "crates")
    IN  [i \in 1..Len(sorted) |-> sorted[i].num]

CrateWithRepo(crateName, info, resolvedVersion, repoUrl) ==
    IF repoUrl = ""
    THEN Thrown("No repository URL found for \"" \o crateName \o "@" \o resolvedVersion
                \o "\". This crate may not have its source published. Recent versions: "
                \o Join(Take(CratesAvailableVersions(info.versions), RecentCount), ", "))
    ELSE Resolved("crates", crateName, resolvedVersion, repoUrl, "", "v" \o resolvedVersion)

\* fetchCrateVersionInfo: the status of GET /crates/{name}/{version}
CrateVersionStatus(info, version) ==
    IF info.versionStatus # "200" THEN info.versionStatus
    ELSE IF \E i \in 1..Len(info.versions) : info.versions[i].num = version THEN "200"
    ELSE "404"

CrateWithVersionStatus(crateName, version, info, status) ==
    IF version # "" /\ status = "404"
    THEN Thrown("Version \"" \o version \o "\" not found for crate \"" \o crateName \o "\"")
    ELSE IF version # "" /\ status # "200"
    THEN Thrown("Failed to fetch crate version info: " \o StatusLine(status))
    ELSE CrateWithRepo(crateName, info,
                       IF version # "" THEN version ELSE info.crate.max_version,
                       CratesExtractRepoUrl(info.crate))

resolveCrate(crateName, version, info) ==
    IF info.status = "404" THEN Thrown("Crate \"" \o crateName \o "\" not found on crates.io")
    ELSE IF info.status # "200"
    THEN Thrown("Failed to fetch crate info: " \o StatusLine(info.status))
    ELSE CrateWithVersionStatus(crateName, version, info,
                                IF version = "" THEN "200"
                                ELSE CrateVersionStatus(info, version))

-----------------------------------------------------------------------------
(* The Packagist resolver: src/src/lib/registries/packagist.ts *)

\* the filter of getAvailableVersions with includeDev left at false
PackagistIsDev(v) ==
    StartsWith(v.version, "dev-") \/ EndsWith(v.version, "-dev") \/ Includes(v.version, "-dev@")

PackagistAvailableVersions(versions) ==
    SortedBy(SelectSeq(versions, LAMBDA v : ~PackagistIsDev(v)), "packagist")

\* the first versions.find of the explicit-version branch
PackagistExact(v, version, normalizedRequest) ==
    \/ v.version = version
    \/ v.version = "v" \o version
    \/ v.version_normalized = normalizedRequest
    \/ StartsWith(v.version_normalized, normalizedRequest \o ".")

\* find || find || versions[0]
PackagistFind(versions, version, normalizedRequest) ==
    IF \E i \in 1..Len(versions) : PackagistExact(versions[i], version, normalizedRequest)
    THEN versions[Min({i \in 1..Len(versions) :
                         PackagistExact(versions[i], version, normalizedRequest)})]
    ELSE IF \E i \in 1..Len(versions) : Includes(versions[i].version, version)
    THEN versions[Min({i \in 1..Len(versions) : Includes(versions[i].version, version)})]
    ELSE versions[1]

PackagistLatest(versions, stableVersions) ==
    IF Len(stableVersions) > 0 THEN stableVersions[1] ELSE versions[1]

PackagistWithRepo(pkg, versions, resolved, repoUrl) ==
    IF repoUrl = ""
    THEN Thrown("No repository URL found for \"" \o pkg \o "@" \o resolved.version
                \o "\". This package may not have its source published. Recent versions: "
                \o Join(Take([i \in 1..Len(PackagistAvailableVersions(versions)) |->
                                PackagistAvailableVersions(versions)[i].version],
                             RecentCount), ", "))
    ELSE Resolved("packagist", pkg, resolved.version, repoUrl, "",
                  IF StartsWith(resolved.version, "v") THEN resolved.version
                  ELSE "v" \o resolved.version)

PackagistWithVersion(pkg, versions, resolved) ==
    PackagistWithRepo(pkg, versions, resolved, normalizePackagistUrl(resolved.sourceUrl))

resolvePackagistPackage(pkg, version, info) ==
    IF info.status = "404" THEN Thrown("Package \"" \o pkg \o "\" not found on Packagist")
    ELSE IF info.status # "200"
    THEN Thrown("Failed to fetch package info: " \o StatusLine(info.status))
    ELSE IF Len(info.versions) = 0 THEN Thrown("No versions found for \"" \o pkg \o "\"")
    ELSE PackagistWithVersion(pkg, info.versions,
           IF version # ""
           THEN PackagistFind(info.versions, version, StripPrefix(version, "v"))
           ELSE PackagistLatest(info.versions, PackagistAvailableVersions(info.versions)))

-----------------------------------------------------------------------------
(* The Maven resolver: src/src/lib/registries/maven.ts *)

\* fetchRecentVersions: the versions the search lists, [] when it fails
fetchRecentVersions(meta) ==
    IF meta.searchStatus # "200" THEN <<>> ELSE Take(meta.versions, RecentCount)

RecentSuffix(recentVersions) ==
    IF Len(recentVersions) > 0 THEN " Recent versions: " \o Join(recentVersions, ", ")
    ELSE ""

\* the tag of <scm><tag>: none when the element is missing or says HEAD
ScmTagOf(pom) ==
    IF pom.hasTag /\ Trim(pom.tag) # "HEAD"
    THEN [present |-> TRUE, tag |-> Trim(pom.tag)]
    ELSE [present |-> FALSE, tag |-> ""]

\* the first of <connection>, <developerConnection>, <url> that normalizes to
\* a URL of a known host
ScmRepoUrl(connection, developerConnection, url) ==
    IF connection # "" THEN connection
    ELSE IF developerConnection # "" THEN developerConnection
    ELSE url

ScmInfo(repoUrl, scmTag) == [found |-> repoUrl # "", repoUrl |-> repoUrl, scmTag |-> scmTag]

\* fetchScmInfo: the POM as the elements its regular expressions read
fetchScmInfo(pom) ==
    IF pom.status # "200" \/ ~pom.hasScm THEN ScmInfo("", ScmTagOf(pom))
    ELSE ScmInfo(ScmRepoUrl(ScmKnownHost(normalizeScmUrl(Trim(pom.connection))),
                            ScmKnownHost(normalizeScmUrl(Trim(pom.developerConnection))),
                            ScmKnownHost(normalizeScmUrl(Trim(pom.url)))),
                 ScmTagOf(pom))

MavenWithScm(groupId, artifactId, resolvedVersion, meta, scmInfo) ==
    IF ~scmInfo.found
    THEN Thrown("No repository URL found in POM for \"" \o groupId \o ":" \o artifactId
                \o ":" \o resolvedVersion
                \o "\". The artifact may not publish SCM information."
                \o RecentSuffix(fetchRecentVersions(meta)))
    ELSE Resolved("maven", groupId \o ":" \o artifactId, resolvedVersion, scmInfo.repoUrl, "",
                  IF scmInfo.scmTag.present THEN scmInfo.scmTag.tag
                  ELSE artifactId \o "-" \o resolvedVersion)

\* verifyVersion, then the rest of resolveMavenPackage
MavenExplicit(groupId, artifactId, version, meta) ==
    IF meta.searchStatus # "200"
    THEN Thrown("Failed to query Maven Central: " \o StatusLine(meta.searchStatus))
    ELSE IF \A i \in 1..Len(meta.versions) : meta.versions[i] # version
    THEN Thrown("Version \"" \o version \o "\" not found for \"" \o groupId \o ":"
                \o artifactId \o "\". Recent versions: "
                \o Join(fetchRecentVersions(meta), ", "))
    ELSE MavenWithScm(groupId, artifactId, version, meta, fetchScmInfo(meta.pom))

\* fetchLatestVersion, then the rest of resolveMavenPackage
MavenLatest(groupId, artifactId, meta) ==
    IF meta.searchStatus # "200"
    THEN Thrown("Failed to query Maven Central: " \o StatusLine(meta.searchStatus))
    ELSE IF Len(meta.versions) = 0
    THEN Thrown("Artifact \"" \o groupId \o ":" \o artifactId
                \o "\" not found on Maven Central")
    ELSE MavenWithScm(groupId, artifactId, meta.latestVersion, meta, fetchScmInfo(meta.pom))

resolveMavenPackage(groupId, artifactId, version, meta) ==
    IF version # "" THEN MavenExplicit(groupId, artifactId, version, meta)
    ELSE MavenLatest(groupId, artifactId, meta)

\* The requests resolveMavenPackage makes on the way, in order.  The POM, and
\* the recent versions when it gives no repository
PomFetches(meta) ==
    IF fetchScmInfo(meta.pom).found THEN <<"pom">> ELSE <<"pom", "search recent">>

\* the POM asked for before the version is looked up
PomFirst(version, meta) ==
    <<"pom", IF version # "" THEN "search version" ELSE "search latest">>

MavenFetches(version, meta) ==
    IF version # ""
    THEN IF meta.searchStatus # "200" THEN <<"search version">>
         ELSE IF \A i \in 1..Len(meta.versions) : meta.versions[i] # version
         THEN <<"search version", "search recent">>
         ELSE <<"search version">> \o PomFetches(meta)
    ELSE IF meta.searchStatus # "200" \/ Len(meta.versions) = 0 THEN <<"search latest">>
    ELSE <<"search latest">> \o PomFetches(meta)

-----------------------------------------------------------------------------
(* The PyPI resolver: src/unnamed/part_008 *)

repoKeys == <<"Source", "Source Code", "Repository", "GitHub", "Code", "Homepage">>

\* projectUrls[key] for the first key of keys that has a git-host URL; "" for none
RECURSIVE FirstRepoKeyUrl(_, _, _)
FirstRepoKeyUrl(projectUrls, keys, i) ==
    IF i > Len(keys) THEN ""
    ELSE IF \E j \in 1..Len(projectUrls) :
              /\ projectUrls[j].key = keys[i]
              /\ projectUrls[j].url # ""
              /\ isGitRepoUrl(projectUrls[j].url)
    THEN (CHOOSE e \in {projectUrls[j] : j \in 1..Len(projectUrls)} : e.key = keys[i]).url
    ELSE FirstRepoKeyUrl(projectUrls, keys, i + 1)

\* the first of Object.values(projectUrls) that is a git-host URL; "" for none
FirstGitUrl(projectUrls) ==
    IF \E j \in 1..Len(projectUrls) : isGitRepoUrl(projectUrls[j].url)
    THEN projectUrls[Min({j \in 1..Len(projectUrls) : isGitRepoUrl(projectUrls[j].url)})].url
    ELSE ""

\* extractRepoUrl(info) of pypi.ts; "" is null
PyPIExtractRepoUrl(info) ==
    IF FirstRepoKeyUrl(info.project_urls, repoKeys, 1) # ""
    THEN normalizeRepoUrl(FirstRepoKeyUrl(info.project_urls, repoKeys, 1))
    ELSE IF info.home_page # "" /\ isGitRepoUrl(info.home_page)
    THEN normalizeRepoUrl(info.home_page)
    ELSE IF FirstGitUrl(info.project_urls) # ""
    THEN normalizeRepoUrl(FirstGitUrl(info.project_urls))
    ELSE ""

\* getVersions(releases): releases with a first file that is not yanked
getVersions(releases) ==
    LET sorted == SortedBy(SelectSeq(releases, LAMBDA r : r.hasFiles /\ ~r.yanked),
                           "pypi")
    IN  [i \in 1..Len(sorted) |-> sorted[i].version]

PyPIWithRepo(pkg, version, meta, resolvedVersion, repoUrl) ==
    IF repoUrl = ""
    THEN Thrown("No repository URL found for \"" \o pkg \o "@" \o resolvedVersion
                \o "\". This package may not have its source published."
                \o (IF version = "" THEN RecentSuffix(Take(getVersions(meta.releases), RecentCount))
                    ELSE ""))
    ELSE Resolved("pypi", pkg, resolvedVersion, repoUrl, "", "v" \o resolvedVersion)

\* fetchPyPIPackageInfo(pkg, version): the status of /pypi/{pkg}[/{version}]/json
PyPIStatus(meta, version) ==
    IF meta.status # "200" THEN meta.status
    ELSE IF version = "" \/ (\E i \in 1..Len(meta.releases) : meta.releases[i].version = version)
    THEN "200"
    ELSE "404"

\* the info of the answer: the release asked for, or the package's current one
PyPIInfo(meta, version) ==
    IF version = "" THEN meta.info ELSE [meta.info EXCEPT !.version = version]

PyPIWithInfo(pkg, version, meta, info) ==
    PyPIWithRepo(pkg, version, meta, info.version, PyPIExtractRepoUrl(info))

PyPIWithStatus(pkg, version, meta, status) ==
    IF status = "404" THEN Thrown("Package \"" \o pkg \o "\" not found on PyPI")
    ELSE IF status # "200"
    THEN Thrown("Failed to fetch package info: " \o StatusLine(status))
    ELSE PyPIWithInfo(pkg, version, meta, PyPIInfo(meta, version))

resolvePyPIPackage(pkg, version, meta) ==
    PyPIWithStatus(pkg, version, meta, PyPIStatus(meta, version))

-----------------------------------------------------------------------------
(* The clone step: src/unnamed/part_000 (lib/git.ts) *)

REPOS_DIR == "repos"

\* what /https?:\/\/([^/]+)\/([^/]+)\/([^/]+)/ captures when it matches at i
HttpsPartsAt(url, i) ==
    LET rest == SliceFrom(url, i - 1)
    IN  IF StartsWith(rest, "https://") THEN Split(SliceFrom(rest, 8), "/")
        ELSE IF StartsWith(rest, "http://") THEN Split(SliceFrom(rest, 7), "/")
        ELSE <<>>

HttpsMatchesAt(url, i) ==
    /\ Len(HttpsPartsAt(url, i)) >= 3
    /\ \A k \in 1..3 : HttpsPartsAt(url, i)[k] # ""

\* what /git@([^:]+):([^/]+)\/(.+)/ captures when it matches at i
SshPartsAt(url, i) ==
    LET rest  == SliceFrom(url, i - 1)
        after == SliceFrom(rest, 4)
        colon == IndexOf(after, ":")
        path  == SliceFrom(after, colon)
        slash == IndexOf(path, "/")
    IN  IF StartsWith(rest, "git@") /\ colon > 1 /\ slash > 1 /\ slash < Len(path)
        THEN <<SubSeq(after, 1, colon - 1), SubSeq(path, 1, slash - 1), SliceFrom(path, slash)>>
        ELSE <<>>

RepoParts(parts) ==
    [found |-> TRUE, host |-> parts[1], owner |-> parts[2],
     repo |-> StripSuffix(parts[3], ".git")]

NoRepoParts == [found |-> FALSE, host |-> "", owner |-> "", repo |-> ""]

\* the leftmost match of each regular expression, the https one tried first
parseRepoUrl(url) ==
    LET https == {i \in 1..Len(url) : HttpsMatchesAt(url, i)}
        ssh   == {i \in 1..Len(url) : SshPartsAt(url, i) # <<>>}
    IN  IF https # {} THEN RepoParts(HttpsPartsAt(url, Min(https)))
        ELSE IF ssh # {} THEN RepoParts(SshPartsAt(url, Min(ssh)))
        ELSE NoRepoParts

DisplayNameOf(parsed) ==
    IF parsed.found THEN parsed.host \o "/" \o parsed.owner \o "/" \o parsed.repo ELSE ""

\* null is ""
getRepoDisplayName(repoUrl) == DisplayNameOf(parseRepoUrl(repoUrl))

getRepoRelativePath(displayName) == REPOS_DIR \o "/" \o displayName

\* a remote: whether it can be cloned at all, and the branches and tags it has
Remote(up, refs) == [up |-> up, refs |-> refs]

\* git.clone(repoUrl, targetPath, [..., "--branch", tag, ...]) resolves
CloneSucceeds(remote, tag) == remote.up /\ tag \in remote.refs

tagsToTry(version) == <<"v" \o version, version, version>>

\* the loop with no return in it: every tag is passed to git.clone
TagsAllTried(remote, tags) == tags

\* the tags the loop passes to git.clone, in order, up to the first that works
RECURSIVE TagsAttempted(_, _)
TagsAttempted(remote, tags) ==
    IF tags = <<>> THEN <<>>
    ELSE IF CloneSucceeds(remote, Head(tags)) THEN <<Head(tags)>>
    ELSE <<Head(tags)>> \o TagsAttempted(remote, Tail(tags))

GitErrorMessage == "fatal: repository not found"

\* the calls of git.clone with --branch, each with whether it resolved
BranchClones(remote, attempted) ==
    [i \in 1..Len(attempted) |->
        [branch |-> attempted[i], ok |-> CloneSucceeds(remote, attempted[i])]]

\* the call of git.clone without --branch: the default branch
DefaultClone(remote) == [branch |-> "", ok |-> remote.up]

CloneOutcome(remote, version, attempted) ==
    IF attempted # <<>> /\ CloneSucceeds(remote, attempted[Len(attempted)])
    THEN [success |-> TRUE, tag |-> attempted[Len(attempted)], error |-> "",
          attempted |-> attempted, clones |-> BranchClones(remote, attempted)]
    ELSE IF remote.up
    THEN [success |-> TRUE, tag |-> "HEAD",
          error |-> "Could not find tag for version " \o version
                    \o ", cloned default branch instead",
          attempted |-> attempted,
          clones |-> Append(BranchClones(remote, attempted), DefaultClone(remote))]
    ELSE [success |-> FALSE, tag |-> "",
          error |-> "Failed to clone repository: " \o GitErrorMessage,
          attempted |-> attempted,
          clones |-> Append(BranchClones(remote, attempted), DefaultClone(remote))]

\* the result, with the tags git.clone was called with on the way to it
cloneAtTag(remote, version) ==
    CloneOutcome(remote, version, TagsAttempted(remote, tagsToTry(version)))

FetchResult(resolved, path, success, error) ==
    [package |-> resolved.name, version |-> resolved.version, path |-> path,
     success |-> success, error |-> error, registry |-> resolved.registry]

SourcePath(resolved, displayName) ==
    IF resolved.repoDirectory # ""
    THEN getRepoRelativePath(displayName) \o "/" \o resolved.repoDirectory
    ELSE getRepoRelativePath(displayName)

\* the directories under opensrc/repos after the fetch: the one at the
\* repository's path is removed first and is back only if a clone succeeded
DiskAfter(before, displayName, cloned) ==
    LET path == getRepoRelativePath(displayName)
        kept == {d \in before : d.path # path}
    IN  IF cloned.success THEN kept \cup {[path |-> path, tag |-> cloned.tag]} ELSE kept

FetchWithClone(resolved, displayName, cloned, before) ==
    [result |-> IF cloned.success
                THEN FetchResult(resolved, SourcePath(resolved, displayName), TRUE,
                                 cloned.error)
                ELSE FetchResult(resolved, getRepoRelativePath(displayName), FALSE,
                                 cloned.error),
     attempted |-> cloned.attempted,
     clones |-> cloned.clones,
     disk |-> DiskAfter(before, displayName, cloned)]

FetchWithName(resolved, displayName, remote, before) ==
    IF displayName = ""
    THEN [result |-> FetchResult(resolved, "", FALSE,
                         "Could not parse repository URL: " \o resolved.repoUrl),
          attempted |-> <<>>,
          clones |-> <<>>,
          disk |-> before]
    ELSE FetchWithClone(resolved, displayName, cloneAtTag(remote, resolved.version), before)

\* fetchSource(resolved): the FetchResult, the tags tried and the disk left
fetchSource(resolved, remote, before) ==
    FetchWithName(resolved, getRepoDisplayName(resolved.repoUrl), remote, before)

-----------------------------------------------------------------------------
(* The direct-repository resolver: src/src/lib/repo.ts *)

RepoSpecOf(host, owner, repo, ref) ==
    [host |-> host, owner |-> owner, repo |-> repo, ref |-> ref]

ResolvedRepo(host, owner, repo, ref, repoUrl) ==
    [ok |-> TRUE, host |-> host, owner |-> owner, repo |-> repo, ref |-> ref,
     repoUrl |-> repoUrl, displayName |-> host \o "/" \o owner \o "/" \o repo]

\* ref || data.default_branch
RefOrDefault(ref, api) == IF ref # "" THEN ref ELSE api.default_branch

resolveGitHubRepo(host, owner, repo, ref, api) ==
    IF api.status = "404"
    THEN Thrown("Repository \"" \o owner \o "/" \o repo \o "\" not found on GitHub. "
                \o "Make sure it exists and is public.")
    ELSE IF api.status = "403"
    THEN Thrown("GitHub API rate limit exceeded. Try again later or authenticate.")
    ELSE IF api.status # "200"
    THEN Thrown("Failed to fetch repository info: " \o StatusLine(api.status))
    ELSE ResolvedRepo(host, owner, repo, RefOrDefault(ref, api),
                      "https://github.com/" \o owner \o "/" \o repo)

resolveGitLabRepo(host, owner, repo, ref, api) ==
    IF api.status = "404"
    THEN Thrown("Repository \"" \o owner \o "/" \o repo \o "\" not found on GitLab. "
                \o "Make sure it exists and is public.")
    ELSE IF api.status # "200"
    THEN Thrown("Failed to fetch repository info: " \o StatusLine(api.status))
    ELSE ResolvedRepo(host, owner, repo, RefOrDefault(ref, api),
                      "https://gitlab.com/" \o owner \o "/" \o repo)

\* api is what the host's repository endpoint answers when it is asked
resolveRepo(spec, api) ==
    IF spec.host = "github.com"
    THEN resolveGitHubRepo(spec.host, spec.owner, spec.repo, spec.ref, api)
    ELSE IF spec.host = "gitlab.com"
    THEN resolveGitLabRepo(spec.host, spec.owner, spec.repo, spec.ref, api)
    ELSE ResolvedRepo(spec.host, spec.owner, spec.repo,
                      IF spec.ref # "" THEN spec.ref ELSE "main",
                      "https://" \o spec.host \o "/" \o spec.owner \o "/" \o spec.repo)

-----------------------------------------------------------------------------
(* The specifier parsers and the registry dispatcher:
   src/src/lib/registries/{npm,crates,packagist,nuget,maven,index}.ts and
   src/unnamed/part_008.  An absent version is "". *)

NameVersion(name, version) == [name |-> name, version |-> version]

\* spec.lastIndexOf("@") > 0: the name before the last @, the version after it
SplitAtLastAt(spec, atIndex) ==
    NameVersion(SubSeq(spec, 1, atIndex - 1), SliceFrom(spec, atIndex))

\* spec.match(/^(@[^/]+\/[^@]+)(?:@(.+))?$/) for the part after the first
\* slash; no match is a name of ""
ScopedMatch(spec, slash, rest, at) ==
    IF slash < 3 \/ rest = "" \/ at = 1 THEN NameVersion("", "")
    ELSE IF at = 0 THEN NameVersion(spec, "")
    ELSE IF SliceFrom(rest, at) = "" THEN NameVersion("", "")
    ELSE NameVersion(SubSeq(spec, 1, slash + at - 1), SliceFrom(rest, at))

ScopedMatchAfter(spec, slash, rest) == ScopedMatch(spec, slash, rest, IndexOf(rest, "@"))

ScopedMatchAt(spec, slash) == ScopedMatchAfter(spec, slash, SliceFrom(spec, slash))

NpmUnscoped(spec, atIndex) ==
    IF atIndex > 1 THEN SplitAtLastAt(spec, atIndex) ELSE NameVersion(spec, "")

NpmWithMatch(spec, match) ==
    IF match.name # "" THEN match ELSE NpmUnscoped(spec, LastIndexOf(spec, "@"))

parseNpmSpec(spec) ==
    IF StartsWith(spec, "@") THEN NpmWithMatch(spec, ScopedMatchAt(spec, IndexOf(spec, "/")))
    ELSE NpmUnscoped(spec, LastIndexOf(spec, "@"))

TrimBoth(parsed) == NameVersion(Trim(parsed.name), Trim(parsed.version))

TrimmedAtLastAt(spec, atIndex) ==
    IF atIndex > 1 THEN TrimBoth(SplitAtLastAt(spec, atIndex))
    ELSE NameVersion(Trim(spec), "")

parseCratesSpec(spec) == TrimmedAtLastAt(spec, LastIndexOf(spec, "@"))

\* spec.match(/^([^=<>!~]+)==(.+)$/), eq the place of the first "="
PyPIEqMatches(spec, eq) ==
    /\ eq > 1
    /\ \A i \in 1..(eq - 1) : ~Includes("<>!~", Ch(spec, i))
    /\ Ch(spec, eq + 1) = "="
    /\ Len(spec) > eq + 1

PyPIWithEq(spec, eq) ==
    IF PyPIEqMatches(spec, eq)
    THEN NameVersion(Trim(SubSeq(spec, 1, eq - 1)), Trim(SliceFrom(spec, eq + 1)))
    ELSE TrimmedAtLastAt(spec, LastIndexOf(spec, "@"))

parsePyPISpec(spec) == PyPIWithEq(spec, IndexOf(spec, "="))

PackagistSplit(trimmed, colonIndex, atIndex, slashIndex) ==
    IF slashIndex = 0 THEN NameVersion(trimmed, "")
    ELSE IF colonIndex > slashIndex
    THEN NameVersion(Trim(SubSeq(trimmed, 1, colonIndex - 1)),
                     Trim(SliceFrom(trimmed, colonIndex)))
    ELSE IF atIndex > slashIndex
    THEN NameVersion(Trim(SubSeq(trimmed, 1, atIndex - 1)), Trim(SliceFrom(trimmed, atIndex)))
    ELSE NameVersion(trimmed, "")

PackagistTrimmed(trimmed) ==
    PackagistSplit(trimmed, LastIndexOf(trimmed, ":"), LastIndexOf(trimmed, "@"),
                   IndexOf(trimmed, "/"))

parsePackagistSpec(spec) == PackagistTrimmed(Trim(spec))

parseNuGetSpec(spec) == TrimmedAtLastAt(Trim(spec), LastIndexOf(Trim(spec), "@"))

MavenCoordinates(groupId, artifactId, version) ==
    [ok |-> TRUE, groupId |-> groupId, artifactId |-> artifactId, version |-> version]

\* the Maven parse with a specifier that has no colon taken as a groupId
MavenLenient(spec, parts, version) ==
    MavenCoordinates(Trim(At(parts, 1)), Trim(At(parts, 2)),
                     IF version = "" THEN Trim(At(parts, 3)) ELSE version)

\* the Maven parse with the colon version preferred to the @ version
MavenColonFirst(spec, parts, version) ==
    IF Len(parts) < 2 \/ Trim(At(parts, 1)) = "" \/ Trim(At(parts, 2)) = ""
    THEN Thrown("Invalid Maven specifier \"" \o spec \o "\".")
    ELSE MavenCoordinates(Trim(parts[1]), Trim(parts[2]),
                          IF Trim(At(parts, 3)) # "" THEN Trim(At(parts, 3)) ELSE version)

MavenFromParts(spec, parts, version) ==
    IF Len(parts) < 2
    THEN Thrown("Invalid Maven specifier \"" \o spec \o "\". Expected format: "
                \o "groupId:artifactId or groupId:artifactId:version")
    ELSE IF Trim(parts[1]) = "" \/ Trim(parts[2]) = ""
    THEN Thrown("Invalid Maven specifier \"" \o spec
                \o "\". groupId and artifactId must not be empty.")
    ELSE MavenCoordinates(Trim(parts[1]), Trim(parts[2]),
                          IF version = "" THEN Trim(At(parts, 3)) ELSE version)

MavenTrimmed(spec, trimmed, atIdx) ==
    IF atIdx > 1
    THEN MavenFromParts(spec, Split(SubSeq(trimmed, 1, atIdx - 1), ":"),
                        Trim(SliceFrom(trimmed, atIdx)))
    ELSE MavenFromParts(spec, Split(trimmed, ":"), "")

parseMavenSpec(spec) == MavenTrimmed(spec, Trim(spec), LastIndexOf(Trim(spec), "@"))

\* the entries of REGISTRY_PREFIXES, in the order Object.entries gives them
REGISTRY_PREFIXES ==
    <<<<"npm:", "npm">>, <<"pypi:", "pypi">>, <<"pip:", "pypi">>, <<"python:", "pypi">>,
      <<"crates:", "crates">>, <<"cargo:", "crates">>, <<"rust:", "crates">>,
      <<"maven:", "maven">>, <<"mvn:", "maven">>, <<"java:", "maven">>>>

Detected(reg, cleanSpec) == [registry |-> reg, cleanSpec |-> cleanSpec]

FirstPrefixFound(trimmed, matching) ==
    IF matching = {} THEN Detected("npm", trimmed)
    ELSE Detected(REGISTRY_PREFIXES[Min(matching)][2],
                  SliceFrom(trimmed, Len(REGISTRY_PREFIXES[Min(matching)][1])))

DetectTrimmed(trimmed) ==
    FirstPrefixFound(trimmed,
        {i \in 1..Len(REGISTRY_PREFIXES) :
            StartsWith(ToLowerCase(trimmed), REGISTRY_PREFIXES[i][1])})

detectRegistry(spec) == DetectTrimmed(Trim(spec))

PackageSpec(reg, name, version) ==
    [ok |-> TRUE, registry |-> reg, name |-> name, version |-> version]

PackageSpecOf(reg, parsed) == PackageSpec(reg, parsed.name, parsed.version)

MavenPackageSpec(coordinates) ==
    IF ~coordinates.ok THEN coordinates
    ELSE PackageSpec("maven", coordinates.groupId \o ":" \o coordinates.artifactId,
                     coordinates.version)

ParseDetected(detected) ==
    CASE detected.registry = "npm" -> PackageSpecOf("npm", parseNpmSpec(detected.cleanSpec))
      [] detected.registry = "pypi" -> PackageSpecOf("pypi", parsePyPISpec(detected.cleanSpec))
      [] detected.registry = "crates" ->
           PackageSpecOf("crates", parseCratesSpec(detected.cleanSpec))
      [] detected.registry = "maven" -> MavenPackageSpec(parseMavenSpec(detected.cleanSpec))

\* a PackageSpec, or the Error parseMavenSpec threw
parsePackageSpec(spec) == ParseDetected(detectRegistry(spec))

SUPPORTED_HOSTS == {"github.com", "gitlab.com", "bitbucket.org"}

HasHostPrefix(trimmed) ==
    \/ StartsWith(trimmed, "github:")
    \/ StartsWith(trimmed, "gitlab:")
    \/ StartsWith(trimmed, "bitbucket:")

\* trimmed.match(/^https?:\/\//)
MatchesHttp(trimmed) == StartsWith(trimmed, "http://") \/ StartsWith(trimmed, "https://")

\* new URL(trimmed) did not throw and its path has an owner and a repo
UrlHasRepoPath(url) ==
    url.valid /\ Len(FilterNonEmpty(Split(url.pathname, "/"))) >= 2

AlphaNumeric == LowerLetters \o UpperLetters \o Digits

\* /^[a-zA-Z0-9][a-zA-Z0-9-]*$/
ValidOwner(owner) ==
    /\ owner # ""
    /\ Includes(AlphaNumeric, Ch(owner, 1))
    /\ \A i \in 1..Len(owner) : Includes(AlphaNumeric \o "-", Ch(owner, i))

\* /^[a-zA-Z0-9._-]+$/
ValidRepo(repoPart) ==
    /\ repoPart # ""
    /\ \A i \in 1..Len(repoPart) : Includes(AlphaNumeric \o "._-", Ch(repoPart, i))

\* the owner/repo test with any two non-empty sides taken for a repository
OwnerRepoLoose(parts) ==
    Len(parts) = 2 /\ parts[1] # "" /\ parts[2] # ""

OwnerRepoShaped(parts) ==
    /\ Len(parts) = 2
    /\ parts[1] # ""
    /\ parts[2] # ""
    /\ ValidOwner(parts[1])
    /\ ValidRepo(At(Split(At(Split(parts[2], "@"), 1), "#"), 1))

IsRepoTrimmed(trimmed) ==
    IF HasHostPrefix(trimmed) THEN TRUE
    ELSE IF MatchesHttp(trimmed) /\ UrlHasRepoPath(ParseUrl(trimmed)) THEN TRUE
    ELSE IF \E h \in SUPPORTED_HOSTS : StartsWith(trimmed, h \o "/") THEN TRUE
    ELSE IF StartsWith(trimmed, "@") THEN FALSE
    ELSE OwnerRepoShaped(Split(trimmed, "/"))

isRepoSpec(spec) == IsRepoTrimmed(Trim(spec))

InputTypeOf(trimmed) ==
    IF \E i \in 1..Len(REGISTRY_PREFIXES) :
            StartsWith(ToLowerCase(trimmed), REGISTRY_PREFIXES[i][1])
    THEN "package"
    ELSE IF isRepoSpec(trimmed) THEN "repo"
    ELSE "package"

detectInputType(spec) == InputTypeOf(Trim(spec))

\* the branch fetchCommand takes for one specifier: its input type and, on the
\* package branch, what fetchPackageInput's parsePackageSpec makes of it
RouteOf(spec, inputType) ==
    [inputType |-> inputType,
     packageSpec |-> IF inputType = "package" THEN parsePackageSpec(spec) ELSE <<>>]

RouteInput(spec) == RouteOf(spec, detectInputType(spec))

-----------------------------------------------------------------------------
(* compareNuGetVersions as a step: two version strings in, a number out *)

\* the version strings compared: the ones of nuget's tests and the shapes the
\* comparison distinguishes (short core, numeric and alphanumeric prerelease
\* identifiers, identifiers holding a hyphen, build metadata)
CompareVersions ==
    {"1.0.0", "1.0", "1.10.0", "2.0.0-beta", "4.3.1", "4.3.2-dev-02419",
     "4.3.2-dev-02420", "1.0.0-beta", "1.0.0-beta.1", "1.0.0-beta.2", "1.0.0-1",
     "1.0.0-rc-1.2", "1.0.0-rc-1.10", "1.0.0+a", "1.0.0+b", "1.0.0-beta+a"}

IdleResolver ==
    /\ registry = ""
    /\ packageName = ""
    /\ requestedVersion = ""
    /\ allowPrerelease = FALSE
    /\ metadata = <<>>
    /\ pc = "idle"
    /\ outcome = <<>>
    /\ requests = <<>>

IdleCompare ==
    /\ cmpA = ""
    /\ cmpB = ""
    /\ cmpPc = "idle"
    /\ cmpResult = 0

IdleNormalize ==
    /\ normalizer = ""
    /\ rawUrl = ""
    /\ normPc = "idle"
    /\ normOnce = ""
    /\ normTwice = ""

IdleFetch ==
    /\ disk = {}
    /\ cloneAttempts = <<>>
    /\ cloneLog = <<>>
    /\ fetchResult = <<>>

IdleStore ==
    /\ index = <<>>
    /\ permission = ""
    /\ projectFiles = <<>>
    /\ ran = <<>>
    /\ batch = <<>>
    /\ world = <<>>
    /\ results = <<>>

IdleRepo ==
    /\ repoSpec = <<>>
    /\ repoApi = <<>>
    /\ repoPc = "idle"
    /\ resolvedRepo = <<>>

IdleParse ==
    /\ parser = ""
    /\ specText = ""
    /\ parsePc = "idle"
    /\ parseResult = <<>>
    /\ dispatched = <<>>

InitCompare ==
    /\ cmpA \in CompareVersions
    /\ cmpB \in CompareVersions
    /\ cmpPc = "args"
    /\ cmpResult = 0
    /\ IdleResolver
    /\ IdleNormalize
    /\ IdleFetch
    /\ IdleRepo
    /\ IdleParse
    /\ IdleStore

Compare ==
    /\ cmpPc = "args"
    /\ cmpResult' = compareNuGetVersions(cmpA, cmpB)
    /\ cmpPc' = "done"
    /\ UNCHANGED <<cmpA, cmpB, resolverVars, normVars, fetchVars, storeVars, repoVars, parseVars>>

NextCompare == Compare

SpecCompare == InitCompare /\ [][NextCompare]_vars

-----------------------------------------------------------------------------
(* The URL normalizers as steps: a candidate URL in, a URL or nothing out,
   and the result normalized once more *)

Normalizers == {"npm", "pypi", "crates", "nuget", "packagist", "maven"}

UrlPrefixes ==
    {"https://", "http://", "git+https://", "git://", "ssh://git@", "git@",
     "scm:git:https://", "https://user:pw@"}

UrlHosts == {"github.com", "gitlab.com", "bitbucket.org", "example.com", "gist.github.com"}

UrlPaths == {"a/b", "a", "a/b/c"}

UrlSuffixes ==
    {"", ".git", "/", ".git/", ".git/tree/dev?x=1#frag", "/tree/main", "/blob/main/x.md",
     "?x=1", "#frag"}

\* scp-like addresses (git@host:owner/repo) put a colon where the others put a slash
RawUrl(prefix, host, path, suffix) ==
    prefix \o host \o (IF prefix = "git@" THEN ":" ELSE "/") \o path \o suffix

UrlPool ==
    {RawUrl(p, h, q, x) : p \in UrlPrefixes, h \in UrlHosts, q \in UrlPaths, x \in UrlSuffixes}

\* what each registry's resolver makes of one candidate URL of its metadata
\* ("" : no result)
Normalize(n, url) ==
    CASE n = "nuget" -> normalizeNuGetRepoUrl(url)
      [] n = "npm" -> normalizeNpmUrl(url)
      [] n = "packagist" -> normalizePackagistUrl(url)
      [] n = "maven" -> ScmKnownHost(normalizeScmUrl(url))
      [] OTHER -> IF url # "" /\ isGitRepoUrl(url) THEN normalizeRepoUrl(url) ELSE ""

InitNormalize ==
    /\ normalizer \in Normalizers
    /\ rawUrl \in UrlPool
    /\ normPc = "raw"
    /\ normOnce = ""
    /\ normTwice = ""
    /\ IdleResolver
    /\ IdleCompare
    /\ IdleFetch
    /\ IdleRepo
    /\ IdleParse
    /\ IdleStore

NormalizeOnce ==
    /\ normPc = "raw"
    /\ normOnce' = Normalize(normalizer, rawUrl)
    /\ normPc' = "once"
    /\ UNCHANGED <<normalizer, rawUrl, normTwice, resolverVars, cmpVars, fetchVars, storeVars, repoVars, parseVars>>

\* normalize(normalize(u)), for a u that normalize gave a result for
NormalizeAgain ==
    /\ normPc = "once"
    /\ normOnce # ""
    /\ normTwice' = Normalize(normalizer, normOnce)
    /\ normPc' = "twice"
    /\ UNCHANGED <<normalizer, rawUrl, normOnce, resolverVars, cmpVars, fetchVars, storeVars, repoVars, parseVars>>

NextNormalize == NormalizeOnce \/ NormalizeAgain

SpecNormalize == InitNormalize /\ [][NextNormalize]_vars

-----------------------------------------------------------------------------
(* resolveRepo as a step: a RepoSpec and the host's answer in, a ResolvedRepo
   or a thrown Error out *)

RepoHosts == {"github.com", "gitlab.com", "bitbucket.org", "git.example.com"}

RepoNames == {"next.js", "lib"}

\* no ref, a branch, a tag, a commit
RepoRefs == {"", "canary", "v1.0.0", "4f2a9c1"}

RepoApi(status, default_branch) == [status |-> status, default_branch |-> default_branch]

\* the repository endpoint of a host: the default branch of a repository it
\* has, or the status it fails with
RepoApiAnswers ==
    {RepoApi("200", b) : b \in {"main", "master", "develop"}}
    \cup {RepoApi(s, "") : s \in {"403", "404", "500"}}

InitRepo ==
    /\ \E h \in RepoHosts, r \in RepoNames, ref \in RepoRefs :
            repoSpec = RepoSpecOf(h, "vercel", r, ref)
    /\ repoApi \in RepoApiAnswers
    /\ repoPc = "spec"
    /\ resolvedRepo = <<>>
    /\ IdleResolver
    /\ IdleCompare
    /\ IdleNormalize
    /\ IdleFetch
    /\ IdleParse
    /\ IdleStore

ResolveRepo ==
    /\ repoPc = "spec"
    /\ resolvedRepo' = resolveRepo(repoSpec, repoApi)
    /\ repoPc' = "done"
    /\ UNCHANGED <<repoSpec, repoApi, resolverVars, cmpVars, normVars, fetchVars, storeVars, parseVars>>

NextRepo == ResolveRepo

SpecRepo == InitRepo /\ [][NextRepo]_vars

-----------------------------------------------------------------------------
(* The parsers and the dispatcher as steps: a specifier in, its parse out;
   for a whole package specifier, then the resolver resolvePackage calls *)

Parsers ==
    {"npm", "crates", "nuget", "pypi", "packagist", "maven", "detect", "package",
     "inputType"}

\* valid names and versions of each registry, and the separators it accepts
SpecNames(p) ==
    CASE p = "npm" -> {"zod", "@babel/core"}
      [] p = "crates" -> {"serde", "tokio-util"}
      [] p = "nuget" -> {"Newtonsoft.Json", "Serilog"}
      [] p = "pypi" -> {"requests", "zope.interface"}
      [] p = "packagist" -> {"laravel/framework", "monolog/monolog"}
      [] OTHER -> {}

SpecVersions(p) ==
    CASE p = "npm" -> {"3.22.0", "7.0.0-beta.1"}
      [] p = "crates" -> {"1.0.0", "0.7.10+wasi"}
      [] p = "nuget" -> {"13.0.3", "4.3.2-dev-02419"}
      [] p = "pypi" -> {"2.31.0", "1!2.0", "2.0+local"}
      [] p = "packagist" -> {"11.0.0", "v3.5.0", "dev-feature/x", "dev-main@abc123"}
      [] OTHER -> {}

Separators(p) ==
    CASE p = "pypi" -> {"==", "@"}
      [] p = "packagist" -> {"@", ":"}
      [] OTHER -> {"@"}

\* what a user may type around a name: nothing, a version, stray blanks
NameTexts(p) ==
    SpecNames(p)
    \cup {n \o sep \o v : n \in SpecNames(p), sep \in Separators(p), v \in SpecVersions(p)}
    \cup {" " \o n \o "@" \o v \o " " : n \in SpecNames(p), v \in SpecVersions(p)}
    \cup {n \o "@" : n \in SpecNames(p)}

MavenGroupIds == {"org.springframework", "io.netty", "", " "}

MavenArtifactIds == {"spring-core", "netty-all", ""}

MavenVersionParts == {"", ":6.1.0", "@6.1.0", ":6.0.0@6.1.0", ":", "@"}

MavenText(g, a, versionPart) == g \o ":" \o a \o versionPart

MavenTexts ==
    {MavenText(g, a, v) : g \in MavenGroupIds, a \in MavenArtifactIds,
                          v \in MavenVersionParts}
    \cup {"springframework", "springframework@6.1.0", "", " spring-core "}

\* the prefixes a user may write, in lower, upper and mixed case
PrefixTexts ==
    {"npm:", "pypi:", "pip:", "python:", "crates:", "cargo:", "rust:", "packagist:",
     "composer:", "php:", "maven:", "mvn:", "java:",
     "NPM:", "PYPI:", "PIP:", "PYTHON:", "CRATES:", "CARGO:", "RUST:", "PACKAGIST:",
     "COMPOSER:", "PHP:", "MAVEN:", "MVN:", "JAVA:",
     "Npm:", "PyPI:", "Pip:", "Python:", "Crates:", "Cargo:", "Rust:", "Packagist:",
     "Composer:", "Php:", "Maven:", "Mvn:", "Java:"}

UnprefixedTexts ==
    {"lodash@4.17.21", "@babel/core", "laravel/framework:^3.0", "requests==2.31.0",
     "org.springframework:spring-core:6.1.0", "springframework", ":spring-core",
     "org.springframework:", "nuget:Serilog"}

PackageTexts ==
    UnprefixedTexts
    \cup {p \o t : p \in PrefixTexts, t \in UnprefixedTexts}
    \cup {" " \o p \o t \o " " : p \in PrefixTexts, t \in {"lodash@4.17.21", "springframework"}}
    \cup {" lodash ", "  "}

\* repository references in each accepted form, with and without a ref
RepoTexts ==
    {"github:vercel/ai", "gitlab:owner/repo", "bitbucket:a/b@v1", "github:",
     "https://github.com/vercel/ai", "http://git.example.com/a/b.git",
     "https://github.com/vercel/ai/tree/main", "https://gitlab.com/owner/repo#dev",
     "github.com/vercel/ai", "gitlab.com/x", "bitbucket.org/a/b#dev",
     "vercel/ai", "vercel/ai@v1.0.0", "vercel/ai#main", "my-org/my.repo_1", "9x/a@",
     " vercel/ai "}

\* texts that are near a repository reference
NearRepoTexts ==
    {"lodash", "@babel/core@7.0.0", "@vercel/ai", "a/b/c", "-owner/repo", "own_er/repo",
     "owner/re po", "owner/", "/repo", "vercel/@v1", "vercel/#main",
     "https://github.com/vercel", "https://github.com", "https://github.com//",
     "https://", "http://:/a/b", "HTTPS://github.com/vercel/ai", "GitHub:vercel/ai",
     "example.com/a/b", "ftp://github.com/vercel/ai"}

InputTexts ==
    PackageTexts \cup RepoTexts \cup NearRepoTexts
    \cup {p \o t : p \in {"npm:", "PyPI:", "cargo:", "php:", "composer:", "maven:"},
                   t \in {"vercel/ai", "github.com/vercel/ai", "github:vercel/ai",
                          "https://github.com/vercel/ai"}}

SpecTexts(p) ==
    CASE p = "maven" -> MavenTexts
      [] p = "inputType" -> InputTexts
      [] p \in {"detect", "package"} -> PackageTexts
      [] OTHER -> NameTexts(p)

InitParse ==
    /\ parser \in Parsers
    /\ specText \in SpecTexts(parser)
    /\ parsePc = "text"
    /\ parseResult = <<>>
    /\ dispatched = <<>>
    /\ IdleResolver
    /\ IdleCompare
    /\ IdleNormalize
    /\ IdleFetch
    /\ IdleRepo
    /\ IdleStore

Parsed(result) ==
    /\ parsePc = "text"
    /\ parseResult' = result
    /\ parsePc' = "parsed"
    /\ UNCHANGED <<parser, specText, dispatched, resolverVars, cmpVars, normVars, fetchVars, storeVars,
                   repoVars>>

ParseNpm == parser = "npm" /\ Parsed(parseNpmSpec(specText))

ParseCrates == parser = "crates" /\ Parsed(parseCratesSpec(specText))

ParseNuGet == parser = "nuget" /\ Parsed(parseNuGetSpec(specText))

ParsePyPI == parser = "pypi" /\ Parsed(parsePyPISpec(specText))

ParsePackagist == parser = "packagist" /\ Parsed(parsePackagistSpec(specText))

ParseMaven == parser = "maven" /\ Parsed(parseMavenSpec(specText))

DetectRegistry == parser = "detect" /\ Parsed(detectRegistry(specText))

ParsePackageSpec == parser = "package" /\ Parsed(parsePackageSpec(specText))

DetectInputType == parser = "inputType" /\ Parsed(RouteInput(specText))

\* resolvePackage(spec): the resolver called and its arguments; every resolver
\* opens with a request to its registry
Dispatch(spec) ==
    IF spec.registry = "maven"
    THEN <<[resolver |-> "resolveMavenPackage",
            groupId |-> SubSeq(spec.name, 1, IndexOf(spec.name, ":") - 1),
            artifactId |-> SliceFrom(spec.name, IndexOf(spec.name, ":")),
            version |-> spec.version]>>
    ELSE <<[resolver |-> spec.registry, name |-> spec.name, version |-> spec.version]>>

\* the call of resolvePackage that follows a parsePackageSpec that returned
ResolvePackage ==
    /\ parser = "package"
    /\ parsePc = "parsed"
    /\ parseResult.ok
    /\ dispatched' = Dispatch(parseResult)
    /\ parsePc' = "resolving"
    /\ UNCHANGED <<parser, specText, parseResult, resolverVars, cmpVars, normVars, fetchVars, storeVars,
                   repoVars>>

NextParse ==
    \/ ParseNpm
    \/ ParseCrates
    \/ ParseNuGet
    \/ ParsePyPI
    \/ ParsePackagist
    \/ ParseMaven
    \/ DetectRegistry
    \/ ParsePackageSpec
    \/ DetectInputType
    \/ ResolvePackage

SpecParse == InitParse /\ [][NextParse]_vars

-----------------------------------------------------------------------------
(* The resolvers as steps: a package, an optional version ("" for none) and
   the registry's answers in, a ResolvedPackage or a thrown Error out *)

\* the longest version list a registry answers with
MaxVersions == 3

\* the lists of at most n different elements of pool
Lists(pool, n) ==
    UNION {{s \in [1..k -> pool] : \A i, j \in 1..k : i # j => s[i] # s[j]} : k \in 0..n}

Leaf(version, repoType, repoUrl, projectUrl) ==
    [version |-> version, repoType |-> repoType, repoUrl |-> repoUrl,
     projectUrl |-> projectUrl]

NuGetLeafPool ==
    {Leaf("1.0.0", "git", "https://github.com/org/repo.git", "https://example.com/home"),
     Leaf("2.0.0-beta", "", "", "https://github.com/org/repo/"),
     Leaf("4.3.1", "", "git@github.com:serilog/serilog.git", ""),
     Leaf("4.3.2-dev-02419", "Git", "https://github.com/serilog/serilog", ""),
     Leaf("4.3.2-dev-02420", "", "", ""),
     Leaf("4.4.0+build-5", "", "", "https://example.com/project")}

Nuspec(status, repositoryTag, type, url, projectUrl) ==
    [status |-> status, repositoryTag |-> repositoryTag, type |-> type, url |-> url,
     projectUrl |-> projectUrl]

NuspecPool ==
    {Nuspec("404", FALSE, "", "", ""),
     Nuspec("200", TRUE, "git", "https://gitlab.com/org/repo.git", "https://example.com/"),
     Nuspec("200", FALSE, "", "", "https://example.com/docs")}

InlinePage(leaves) == [items |-> leaves, id |-> "", status |-> "200", remoteItems |-> <<>>]

RemotePage(status, leaves) ==
    [items |-> <<>>, id |-> "https://api.nuget.org/v3/registration5-gz-semver2/example.pkg/page.json",
     status |-> status, remoteItems |-> leaves]

NuGetAnswers(serviceStatus, resources, indexStatus, pages, nuspec) ==
    [serviceStatus |-> serviceStatus, resources |-> resources, indexStatus |-> indexStatus,
     pages |-> pages, nuspecStatus |-> nuspec.status, nuspec |-> nuspec]

NuGetResources == {"RegistrationsBaseUrl", "PackageBaseAddress"}

\* the registry answering in full, every leaf inline in one page
NuGetPublished ==
    {NuGetAnswers("200", NuGetResources, "200", <<InlinePage(leaves)>>, nuspec) :
        leaves \in Lists(NuGetLeafPool, MaxVersions) \ {<<>>}, nuspec \in NuspecPool}

\* the registry failing somewhere, paging its leaves, or naming a repository
\* that is not a git repository
NuGetTroubled ==
    LET one == <<Leaf("1.0.0", "git", "https://github.com/org/repo.git", "")>>
        two == <<Leaf("2.0.0-beta", "", "", "")>>
        svn == <<Leaf("1.0.0", "svn", "https://svn.example.com/repo",
                      "https://github.com/org/repo")>>
        none == Nuspec("404", FALSE, "", "", "")
    IN  {NuGetAnswers("500", NuGetResources, "200", <<InlinePage(one)>>, none),
         NuGetAnswers("200", {"PackageBaseAddress"}, "200", <<InlinePage(one)>>, none),
         NuGetAnswers("200", {"RegistrationsBaseUrl"}, "200", <<InlinePage(one)>>, none),
         NuGetAnswers("200", NuGetResources, "404", <<>>, none),
         NuGetAnswers("200", NuGetResources, "500", <<>>, none),
         NuGetAnswers("200", NuGetResources, "200", <<>>, none),
         NuGetAnswers("200", NuGetResources, "200",
                      <<InlinePage(one), RemotePage("200", two)>>, none),
         NuGetAnswers("200", NuGetResources, "200",
                      <<InlinePage(one), RemotePage("500", two)>>, none),
         NuGetAnswers("200", NuGetResources, "200", <<InlinePage(two)>>,
                      Nuspec("500", FALSE, "", "", "")),
         NuGetAnswers("200", NuGetResources, "200", <<InlinePage(svn)>>, none)}

NuGetMetadata == NuGetPublished \cup NuGetTroubled

NuGetRequests == {"", "1.0.0", "2.0.0-BETA", "9.9.9"}

Repository(url, directory) == [present |-> TRUE, url |-> url, directory |-> directory]

NpmVersionPool ==
    {[version |-> "1.0.0",
      repository |-> Repository("git+https://github.com/a/b.git", "packages/b")],
     [version |-> "2.0.0", repository |-> NoRepository],
     [version |-> "2.1.0",
      repository |-> Repository("https://user:pw@github.com/a/b/tree/main", "")],
     [version |-> "3.0.0-rc.1", repository |-> Repository("https://example.com/a/b", "")]}

NpmAnswers(status, latest, versions, repository) ==
    [status |-> status, latest |-> latest, versions |-> versions, repository |-> repository]

NpmMetadata ==
    {NpmAnswers("200", latest, versions, repository) :
        latest \in {"1.0.0", "2.1.0", "9.9.9"},
        versions \in Lists(NpmVersionPool, MaxVersions),
        repository \in {NoRepository, Repository("github:a/b", "")}}
    \cup {NpmAnswers(status, "", <<>>, NoRepository) : status \in {"404", "500"}}

NpmRequests == {"", "2.0.0", "3.0.0-rc.1", "9.9.9"}

CrateVersionPool ==
    {[num |-> "1.0.0", yanked |-> FALSE, created_at |-> 1],
     [num |-> "1.1.0", yanked |-> TRUE, created_at |-> 2],
     [num |-> "2.0.0-alpha", yanked |-> FALSE, created_at |-> 3]}

CrateAnswers(status, versionStatus, maxVersion, repository, homepage, versions) ==
    [status |-> status, versionStatus |-> versionStatus,
     crate |-> [max_version |-> maxVersion, repository |-> repository, homepage |-> homepage],
     versions |-> versions]

\* max_version as crates.io fills it in: the highest version that is not
\* yanked (here the one created last), "0.0.0" when every version is yanked
CrateMaxVersion(versions) ==
    IF \A i \in 1..Len(versions) : versions[i].yanked THEN "0.0.0"
    ELSE (CHOOSE v \in {versions[i] : i \in 1..Len(versions)} :
            /\ ~v.yanked
            /\ \A i \in 1..Len(versions) :
                  versions[i].yanked \/ versions[i].created_at <= v.created_at).num

CratesMetadata ==
    {CrateAnswers("200", versionStatus, CrateMaxVersion(versions), repository, homepage,
                  versions) :
        versionStatus \in {"200", "500"},
        repository \in {"", "https://github.com/a/b.git", "https://gist.github.com/a/b",
                        "https://example.com/a/b"},
        homepage \in {"", "https://github.com/a/b/tree/main/sub"},
        versions \in Lists(CrateVersionPool, MaxVersions) \ {<<>>}}
    \cup {CrateAnswers(status, "200", "", "", "", <<>>) : status \in {"404", "500"}}

CratesRequests == {"", "1.0.0", "9.9.9"}

PackagistVersion(version, normalized, sourceUrl, time) ==
    [version |-> version, version_normalized |-> normalized, sourceUrl |-> sourceUrl,
     time |-> time]

PackagistVersionPool ==
    {PackagistVersion("v1.2.0", "1.2.0.0", "https://github.com/v/p.git", 3),
     PackagistVersion("1.0.0", "1.0.0.0", "git@github.com:v/p.git", 1),
     PackagistVersion("dev-main", "dev-main", "https://github.com/v/p.git", 5),
     PackagistVersion("2.0.x-dev", "2.0.9999999.9999999-dev", "https://example.com/v/p", 4)}

PackagistMetadata ==
    {[status |-> "200", versions |-> versions] :
        versions \in Lists(PackagistVersionPool, MaxVersions)}
    \cup {[status |-> status, versions |-> <<>>] : status \in {"404", "500"}}

PackagistRequests == {"", "1.0.0", "1.2.0", "1", "9.9.9"}

Pom(status, hasScm, hasTag, tag, connection, developerConnection, url) ==
    [status |-> status, hasScm |-> hasScm, hasTag |-> hasTag, tag |-> tag,
     connection |-> connection, developerConnection |-> developerConnection, url |-> url]

PomPool ==
    {Pom("200", TRUE, TRUE, "v6.1.0", "scm:git:git://github.com/org/lib.git", "", ""),
     Pom("200", TRUE, TRUE, "HEAD", "", "scm:git:ssh://git@github.com/org/lib.git",
         "https://github.com/org/lib/tree/main/sub"),
     Pom("200", TRUE, TRUE, "", "", "", "https://github.com/netty/netty/codec-http"),
     Pom("200", TRUE, FALSE, "", "scm:svn:https://svn.example.com/lib", "",
         "https://example.com/lib"),
     Pom("200", TRUE, FALSE, "", "scm:git:https://bitbucket.org/org/lib.git/", "", ""),
     Pom("200", TRUE, FALSE, "", "", "", "https://github.com/org"),
     Pom("200", FALSE, FALSE, "", "", "", ""),
     Pom("404", FALSE, FALSE, "", "", "", ""),
     Pom("500", FALSE, FALSE, "", "", "", "")}

MavenMetadata ==
    {[searchStatus |-> searchStatus, latestVersion |-> "6.1.0", versions |-> versions,
      pom |-> pom] :
        searchStatus \in {"200", "500"},
        versions \in {<<>>, <<"6.1.0">>, <<"6.1.0", "6.0.0">>},
        pom \in PomPool}

MavenRequests == {"", "6.0.0", "9.9.9"}

MavenGroupId == "org.example"

MavenArtifactId == "lib"

ProjectUrlPool ==
    {[key |-> "Homepage", url |-> "https://example.com/"],
     [key |-> "Source", url |-> "https://github.com/psf/requests/"],
     [key |-> "Tracker", url |-> "https://github.com/psf/requests/blob/main/HISTORY.md"]}

ReleasePool ==
    {[version |-> "2.31.0", hasFiles |-> TRUE, yanked |-> FALSE, upload_time |-> "b"],
     [version |-> "2.30.0", hasFiles |-> TRUE, yanked |-> TRUE, upload_time |-> "a"]}

PyPIMetadata ==
    {[status |-> "200",
      info |-> [version |-> "2.31.0", project_urls |-> urls, home_page |-> home],
      releases |-> releases] :
        urls \in Lists(ProjectUrlPool, MaxVersions),
        home \in {"", "https://gitlab.com/psf/requests.git"},
        releases \in Lists(ReleasePool, MaxVersions)}
    \cup {[status |-> status, info |-> [version |-> "", project_urls |-> <<>>, home_page |-> ""],
           releases |-> <<>>] : status \in {"404", "500"}}

PyPIRequests == {"", "2.30.0", "9.9.9"}

\* one resolution to run: the arguments and the answers the registry will give
Scenario(reg, pkg, version, allowPre, meta) ==
    [registry |-> reg, packageName |-> pkg, requestedVersion |-> version,
     allowPrerelease |-> allowPre, metadata |-> meta]

Scenarios ==
    {Scenario("nuget", "Example.Pkg", v, p, m) :
        v \in NuGetRequests, p \in BOOLEAN, m \in NuGetMetadata}
    \cup {Scenario("npm", "left-pad", v, FALSE, m) : v \in NpmRequests, m \in NpmMetadata}
    \cup {Scenario("crates", "serde", v, FALSE, m) : v \in CratesRequests, m \in CratesMetadata}
    \cup {Scenario("packagist", "vendor/pkg", v, FALSE, m) :
            v \in PackagistRequests, m \in PackagistMetadata}
    \cup {Scenario("maven", MavenGroupId \o ":" \o MavenArtifactId, v, FALSE, m) :
            v \in MavenRequests, m \in MavenMetadata}
    \cup {Scenario("pypi", "requests", v, FALSE, m) : v \in PyPIRequests, m \in PyPIMetadata}

\* one repository is on disk from an earlier fetch
FetchedBefore == {[path |-> "repos/github.com/org/lib", tag |-> "v5.0.0"]}

Init ==
    /\ \E s \in Scenarios :
        /\ registry = s.registry
        /\ packageName = s.packageName
        /\ requestedVersion = s.requestedVersion
        /\ allowPrerelease = s.allowPrerelease
        /\ metadata = s.metadata
    /\ pc = "start"
    /\ outcome = <<>>
    /\ requests = <<>>
    /\ disk = FetchedBefore
    /\ cloneAttempts = <<>>
    /\ cloneLog = <<>>
    /\ fetchResult = <<>>
    /\ IdleCompare
    /\ IdleNormalize
    /\ IdleRepo
    /\ IdleParse
    /\ IdleStore

\* a resolver returns or throws: either way the resolution is over
Finish(result, made) ==
    /\ outcome' = result
    /\ requests' = made
    /\ pc' = "done"
    /\ UNCHANGED <<registry, packageName, requestedVersion, allowPrerelease, metadata,
                   cmpVars, normVars, fetchVars, storeVars, repoVars, parseVars>>

ResolveNuGet ==
    /\ pc = "start"
    /\ registry = "nuget"
    /\ Finish(resolveNuGetPackage(packageName, requestedVersion, allowPrerelease, metadata),
              NuGetFetches(NuGetSpecName(Trim(packageName)), requestedVersion,
                           allowPrerelease, metadata))

ResolveNpm ==
    /\ pc = "start"
    /\ registry = "npm"
    /\ Finish(resolveNpmPackage(packageName, requestedVersion, metadata), <<>>)

ResolveCrate ==
    /\ pc = "start"
    /\ registry = "crates"
    /\ Finish(resolveCrate(packageName, requestedVersion, metadata), <<>>)

ResolvePackagist ==
    /\ pc = "start"
    /\ registry = "packagist"
    /\ Finish(resolvePackagistPackage(packageName, requestedVersion, metadata), <<>>)

ResolveMaven ==
    /\ pc = "start"
    /\ registry = "maven"
    /\ Finish(resolveMavenPackage(MavenGroupId, MavenArtifactId, requestedVersion, metadata),
              MavenFetches(requestedVersion, metadata))

ResolvePyPI ==
    /\ pc = "start"
    /\ registry = "pypi"
    /\ Finish(resolvePyPIPackage(packageName, requestedVersion, metadata), <<>>)

\* the refs a remote may or may not have
RemoteRefs(resolved) == {resolved.gitTag, "v" \o resolved.version, resolved.version}

Fetched(f) ==
    /\ fetchResult' = f.result
    /\ cloneAttempts' = f.attempted
    /\ cloneLog' = f.clones
    /\ disk' = f.disk
    /\ pc' = "fetched"
    /\ UNCHANGED <<registry, packageName, requestedVersion, allowPrerelease, metadata,
                   outcome, requests, cmpVars, normVars, repoVars, parseVars, storeVars>>

\* fetchSource on the package a resolver returned, against some remote
FetchSource ==
    /\ pc = "done"
    /\ outcome.ok
    /\ \E up \in BOOLEAN, refs \in SUBSET RemoteRefs(outcome) :
            Fetched(fetchSource(outcome, Remote(up, refs), disk))

Next ==
    \/ ResolveNuGet
    \/ ResolveNpm
    \/ ResolveCrate
    \/ ResolvePackagist
    \/ ResolveMaven
    \/ ResolvePyPI
    \/ FetchSource

Spec == Init /\ [][Next]_vars

-----------------------------------------------------------------------------
(* Repository specifiers and the clone of a repository at a ref:
   src/src/lib/repo.ts and src/unnamed/part_000 (lib/git.ts) *)

\* null: no host
NoRepoSpec == RepoSpecOf("", "", "", "")

RepoSpecFromParts(host, parts, ref) ==
    IF Len(parts) # 2 \/ parts[1] = "" \/ parts[2] = "" THEN NoRepoSpec
    ELSE RepoSpecOf(host, parts[1], parts[2], ref)

\* the ref after the first @, or else after the first #, neither at the start
RepoSpecWithRef(host, input, atIndex, hashIndex) ==
    IF atIndex > 1
    THEN RepoSpecFromParts(host, Split(SubSeq(input, 1, atIndex - 1), "/"),
                           SliceFrom(input, atIndex))
    ELSE IF hashIndex > 1
    THEN RepoSpecFromParts(host, Split(SubSeq(input, 1, hashIndex - 1), "/"),
                           SliceFrom(input, hashIndex))
    ELSE RepoSpecFromParts(host, Split(input, "/"), "")

RepoSpecTail(host, input) ==
    RepoSpecWithRef(host, input, IndexOf(input, "@"), IndexOf(input, "#"))

RepoSpecFromPath(url, pathParts) ==
    IF Len(pathParts) < 2 THEN NoRepoSpec
    ELSE RepoSpecOf(url.hostname, pathParts[1], StripSuffix(pathParts[2], ".git"),
            IF SliceFrom(url.hash, 1) # "" THEN SliceFrom(url.hash, 1)
            ELSE IF Len(pathParts) >= 4 /\ pathParts[3] \in {"tree", "blob"}
            THEN pathParts[4]
            ELSE "")

RepoSpecFromUrl(url) ==
    IF ~url.valid THEN NoRepoSpec
    ELSE RepoSpecFromPath(url, FilterNonEmpty(Split(SliceFrom(url.pathname, 1), "/")))

ParseRepoTrimmed(input) ==
    IF StartsWith(input, "github:") THEN RepoSpecTail("github.com", SliceFrom(input, 7))
    ELSE IF StartsWith(input, "gitlab:") THEN RepoSpecTail("gitlab.com", SliceFrom(input, 7))
    ELSE IF StartsWith(input, "bitbucket:")
    THEN RepoSpecTail("bitbucket.org", SliceFrom(input, 10))
    ELSE IF MatchesHttp(input) THEN RepoSpecFromUrl(ParseUrl(input))
    ELSE IF \E h \in SUPPORTED_HOSTS : StartsWith(input, h \o "/")
    THEN RepoSpecTail(SubSeq(input, 1, IndexOf(input, "/") - 1),
                      SliceFrom(input, IndexOf(input, "/")))
    ELSE IF StartsWith(input, "@") THEN NoRepoSpec
    ELSE IF Len(Split(input, "/")) # 2 THEN NoRepoSpec
    ELSE RepoSpecTail("github.com", input)

parseRepoSpec(spec) == ParseRepoTrimmed(Trim(spec))

cloneAtRef(remote, ref) ==
    IF CloneSucceeds(remote, ref)
    THEN [success |-> TRUE, tag |-> ref, error |-> ""]
    ELSE IF remote.up
    THEN [success |-> TRUE, tag |-> "HEAD",
          error |-> "Could not find ref \"" \o ref \o "\", cloned default branch instead"]
    ELSE [success |-> FALSE, tag |-> "",
          error |-> "Failed to clone repository: " \o GitErrorMessage]

\* a FetchResult of a repository: no registry
RepoFetchResult(name, version, path, success, error) ==
    [package |-> name, version |-> version, path |-> path, success |-> success,
     error |-> error, registry |-> ""]

FetchRepoWithClone(resolved, cloned, before) ==
    [thrown |-> FALSE,
     result |-> RepoFetchResult(resolved.displayName, resolved.ref,
                                getRepoRelativePath(resolved.displayName),
                                cloned.success, cloned.error),
     disk |-> DiskAfter(before, resolved.displayName, cloned)]

fetchRepoSource(resolved, remote, before) ==
    FetchRepoWithClone(resolved, cloneAtRef(remote, resolved.ref), before)

-----------------------------------------------------------------------------
(* sources.json and the removal of a package's source:
   src/unnamed/part_000 (lib/git.ts) and src/src/lib/agents.ts *)

PackageEntry(name, version, reg, path) ==
    [name |-> name, version |-> version, registry |-> reg, path |-> path]

RepoEntry(name, version, path) == [name |-> name, version |-> version, path |-> path]

\* listSources of a project with no sources.json
NoSources == [packages |-> <<>>, repos |-> <<>>]

\* where packages.find / findIndex stops: 0 when nothing matches
FindPackage(packages, name, reg) ==
    IF \E i \in 1..Len(packages) : packages[i].name = name /\ packages[i].registry = reg
    THEN Min({i \in 1..Len(packages) :
                packages[i].name = name /\ packages[i].registry = reg})
    ELSE 0

FindRepo(repos, name) ==
    IF \E i \in 1..Len(repos) : repos[i].name = name
    THEN Min({i \in 1..Len(repos) : repos[i].name = name})
    ELSE 0

\* existsSync of a directory under opensrc/
DirExists(dirs, path) == \E d \in dirs : d.path = path

repoExists(displayName, dirs) == DirExists(dirs, getRepoRelativePath(displayName))

extractRepoPath(fullPath) ==
    IF Len(Split(fullPath, "/")) >= 4 /\ Split(fullPath, "/")[1] = "repos"
    THEN Join(Take(Split(fullPath, "/"), 4), "/")
    ELSE fullPath

\* the removal with the repository deleted whoever else uses it
RemoveUnshared(packages, at, dirs) ==
    [removed |-> TRUE,
     repoRemoved |-> DirExists(dirs, extractRepoPath(packages[at].path)),
     disk |-> {d \in dirs : d.path # extractRepoPath(packages[at].path)}]

RemoveFound(packages, at, dirs) ==
    IF /\ ~\E i \in 1..Len(packages) :
              /\ extractRepoPath(packages[i].path) = extractRepoPath(packages[at].path)
              /\ ~(packages[i].name = packages[at].name
                   /\ packages[i].registry = packages[at].registry)
       /\ DirExists(dirs, extractRepoPath(packages[at].path))
    THEN [removed |-> TRUE, repoRemoved |-> TRUE,
          disk |-> {d \in dirs : d.path # extractRepoPath(packages[at].path)}]
    ELSE [removed |-> TRUE, repoRemoved |-> FALSE, disk |-> dirs]

RemoveAt(packages, at, dirs) ==
    IF at = 0 THEN [removed |-> FALSE, repoRemoved |-> FALSE, disk |-> dirs]
    ELSE RemoveFound(packages, at, dirs)

removePackageSource(name, reg, sources, dirs) ==
    RemoveAt(sources.packages, FindPackage(sources.packages, name, reg), dirs)

removeRepoSource(displayName, dirs) ==
    IF ~repoExists(displayName, dirs) THEN [removed |-> FALSE, disk |-> dirs]
    ELSE [removed |-> TRUE,
          disk |-> {d \in dirs : d.path # getRepoRelativePath(displayName)}]

\* the project files opensrc may edit, each "absent", "plain" (there, without
\* an opensrc entry) or "opensrc" (holding the entry)
ProjectFiles(gitignore, tsconfig, agents) ==
    [gitignore |-> gitignore, tsconfig |-> tsconfig, agents |-> agents]

\* the file after ensureGitignore: created when absent
ensureGitignore(file) == "opensrc"

\* the file after ensureTsconfigExclude: never created
ensureTsconfigExclude(file) == IF file = "absent" THEN "absent" ELSE "opensrc"

\* the file after ensureAgentsMd: created when absent
ensureAgentsMd(file) == "opensrc"

\* updateAgentsMd: sources.json always, AGENTS.md when there are sources
updateAgentsMd(sources, files) ==
    [index |-> sources,
     files |-> IF Len(sources.packages) > 0 \/ Len(sources.repos) > 0
               THEN [files EXCEPT !.agents = ensureAgentsMd(files.agents)]
               ELSE files]

\* updatePackageIndex: sources.json only
updatePackageIndex(sources, files) == [index |-> sources, files |-> files]

-----------------------------------------------------------------------------
(* The commands: src/src/commands/fetch.ts, src/src/commands/clean.ts and
   removeCommand (src/src/commands/clean.ts).  A project is the record
   [index, disk, permission, files]: sources.json, the directories under
   opensrc/repos, the stored allowFileModifications ("unset" when absent) and
   the three project files.  What the registries and the hosts answer while a
   command runs is an environment record. *)

Project(sources, dirs, stored, files) ==
    [index |-> sources, disk |-> dirs, permission |-> stored, files |-> files]

\* release: the latest version of every package; installed: the version the
\* project's lockfile pins ("" for none); tagged: whether the repositories
\* carry version tags; down: the repository URLs that cannot be cloned;
\* unpublished: the packages and repositories nobody knows
Environment(release, installed, tagged, down, unpublished) ==
    [release |-> release, installed |-> installed, tagged |-> tagged, down |-> down,
     unpublished |-> unpublished]

\* the repository the npm registry records for a package
RegistryRepo(name) ==
    CASE name = "react" -> Repository("https://github.com/facebook/react", "packages/react")
      [] name = "react-dom" ->
           Repository("https://github.com/facebook/react", "packages/react-dom")
      [] OTHER -> Repository("", "")

\* resolvePackage against the environment
ResolveIn(env, reg, name, version) ==
    IF name \in env.unpublished \/ RegistryRepo(name).url = ""
    THEN Thrown("Package \"" \o name \o "\" not found on " \o reg)
    ELSE Resolved(reg, name, IF version # "" THEN version ELSE env.release,
                  RegistryRepo(name).url, RegistryRepo(name).directory,
                  "v" \o (IF version # "" THEN version ELSE env.release))

RemoteOf(env, repoUrl) ==
    Remote(repoUrl \notin env.down,
           IF env.tagged THEN {"main", "v1.0.0", "v2.0.0"} ELSE {"main"})

ApiOf(env, displayName) ==
    RepoApi(IF displayName \in env.unpublished THEN "404" ELSE "200", "main")

\* what one pass of fetchCommand's loop leaves: a FetchResult, or an exception
\* that leaves the loop
Returned(result, dirs) == [thrown |-> FALSE, result |-> result, disk |-> dirs]

Escaped(message, dirs) == [thrown |-> TRUE, result |-> message, disk |-> dirs]

PackageFailure(name, reg, message) ==
    [package |-> name, version |-> "", path |-> "", success |-> FALSE, error |-> message,
     registry |-> reg]

AfterFetchSource(f) == Returned(f.result, f.disk)

FetchResolved(resolved, name, reg, env, dirs) ==
    IF ~resolved.ok THEN Returned(PackageFailure(name, reg, resolved.error), dirs)
    ELSE AfterFetchSource(fetchSource(resolved, RemoteOf(env, resolved.repoUrl), dirs))

FetchPackageAt(reg, name, version, at, env, sources, dirs) ==
    IF at > 0 /\ sources.packages[at].version = version
    THEN Returned([package |-> name, version |-> sources.packages[at].version,
                   path |-> sources.packages[at].path, success |-> TRUE, error |-> "",
                   registry |-> reg], dirs)
    ELSE FetchResolved(ResolveIn(env, reg, name, version), name, reg, env, dirs)

\* parsePackageSpec is called before the try block opens
FetchParsed(packageSpec, env, sources, dirs) ==
    IF ~packageSpec.ok THEN Escaped(packageSpec.error, dirs)
    ELSE FetchPackageAt(packageSpec.registry, packageSpec.name,
            IF packageSpec.version = "" /\ packageSpec.registry = "npm"
            THEN env.installed ELSE packageSpec.version,
            FindPackage(sources.packages, packageSpec.name, packageSpec.registry),
            env, sources, dirs)

fetchPackageInput(spec, env, sources, dirs) ==
    FetchParsed(parsePackageSpec(spec), env, sources, dirs)

FetchRepoResolved(resolved, displayName, env, dirs) ==
    IF ~resolved.ok
    THEN Returned(RepoFetchResult(displayName, "", "", FALSE, resolved.error), dirs)
    ELSE fetchRepoSource(resolved, RemoteOf(env, resolved.repoUrl), dirs)

FetchRepoNamed(parsed, displayName, at, env, sources, dirs) ==
    IF /\ repoExists(displayName, dirs)
       /\ at > 0
       /\ parsed.ref # ""
       /\ sources.repos[at].version = parsed.ref
    THEN Returned(RepoFetchResult(displayName, sources.repos[at].version,
                                  getRepoRelativePath(displayName), TRUE, ""), dirs)
    ELSE FetchRepoResolved(resolveRepo(parsed, ApiOf(env, displayName)), displayName,
                           env, dirs)

FetchRepoParsed(spec, parsed, displayName, env, sources, dirs) ==
    IF parsed = NoRepoSpec
    THEN Returned(RepoFetchResult(spec, "", "", FALSE,
                                  "Invalid repository format: " \o spec), dirs)
    ELSE FetchRepoNamed(parsed, displayName, FindRepo(sources.repos, displayName),
                        env, sources, dirs)

FetchRepoSpec(spec, parsed, env, sources, dirs) ==
    FetchRepoParsed(spec, parsed,
                    parsed.host \o "/" \o parsed.owner \o "/" \o parsed.repo,
                    env, sources, dirs)

fetchRepoInput(spec, env, sources, dirs) ==
    FetchRepoSpec(spec, parseRepoSpec(spec), env, sources, dirs)

\* the loop over the specifiers: nothing catches what a pass lets escape
RECURSIVE FetchLoop(_, _, _, _, _)
FetchNext(specs, env, sources, fetched, pass) ==
    IF pass.thrown
    THEN [thrown |-> TRUE, results |-> fetched, disk |-> pass.disk]
    ELSE FetchLoop(Tail(specs), env, sources, pass.disk, Append(fetched, pass.result))

FetchLoop(specs, env, sources, dirs, fetched) ==
    IF specs = <<>> THEN [thrown |-> FALSE, results |-> fetched, disk |-> dirs]
    ELSE FetchNext(specs, env, sources, fetched,
            IF detectInputType(Head(specs)) = "repo"
            THEN fetchRepoInput(Head(specs), env, sources, dirs)
            ELSE fetchPackageInput(Head(specs), env, sources, dirs))

MergePackage(sources, at, entry) ==
    IF at > 0 THEN [sources EXCEPT !.packages[at] = entry]
    ELSE [sources EXCEPT !.packages = Append(@, entry)]

MergeRepo(sources, at, entry) ==
    IF at > 0 THEN [sources EXCEPT !.repos[at] = entry]
    ELSE [sources EXCEPT !.repos = Append(@, entry)]

MergeOne(sources, result) ==
    IF ~result.success THEN sources
    ELSE IF result.registry # ""
    THEN MergePackage(sources,
                      FindPackage(sources.packages, result.package, result.registry),
                      PackageEntry(result.package, result.version, result.registry,
                                   result.path))
    ELSE MergeRepo(sources, FindRepo(sources.repos, result.package),
                   RepoEntry(result.package, result.version, result.path))

RECURSIVE mergeResults(_, _)
mergeResults(existing, fetched) ==
    IF fetched = <<>> THEN existing
    ELSE mergeResults(MergeOne(existing, Head(fetched)), Tail(fetched))

\* the permission in force, which is also the one left in settings.json
checkFileModificationPermission(cliOverride, stored, answer) ==
    IF cliOverride # "unset" THEN cliOverride
    ELSE IF stored # "unset" THEN stored
    ELSE IF answer THEN "allowed" ELSE "denied"

FilesPrepared(files, canModifyFiles) ==
    IF canModifyFiles
    THEN [files EXCEPT !.gitignore = ensureGitignore(@),
                       !.tsconfig = ensureTsconfigExclude(@)]
    ELSE files

\* what a command leaves and returns
CommandDone(thrown, fetched, written, dirs, stored) ==
    [thrown |-> thrown, results |-> fetched,
     project |-> Project(written.index, dirs, stored, written.files)]

FetchWithLoop(sources, files, stored, loop) ==
    CommandDone(loop.thrown, loop.results,
        IF loop.thrown \/ ~\E i \in 1..Len(loop.results) : loop.results[i].success
        THEN [index |-> sources, files |-> files]
        ELSE IF stored = "allowed"
        THEN updateAgentsMd(mergeResults(sources, loop.results), files)
        ELSE updatePackageIndex(mergeResults(sources, loop.results), files),
        loop.disk, stored)

FetchWithPermission(specs, env, project, stored) ==
    FetchWithLoop(project.index, FilesPrepared(project.files, stored = "allowed"), stored,
                  FetchLoop(specs, env, project.index, project.disk, <<>>))

fetchCommand(specs, cliOverride, answer, env, project) ==
    FetchWithPermission(specs, env, project,
        checkFileModificationPermission(cliOverride, project.permission, answer))

\* the directory removeCommand takes a repository item for: "" when not found
RepoTarget(item, guess, dirs) ==
    IF repoExists(guess, dirs) THEN guess
    ELSE IF repoExists(item, dirs) THEN item
    ELSE ""

\* the registry under which the package is indexed: "" when under none
ActualRegistry(packages, name, reg) ==
    IF FindPackage(packages, name, reg) > 0 THEN reg
    ELSE IF \E i \in 1..3 : /\ <<"npm", "pypi", "crates">>[i] # reg
                            /\ FindPackage(packages, name, <<"npm", "pypi", "crates">>[i]) > 0
    THEN <<"npm", "pypi", "crates">>[
            Min({i \in 1..3 : /\ <<"npm", "pypi", "crates">>[i] # reg
                              /\ FindPackage(packages, name,
                                             <<"npm", "pypi", "crates">>[i]) > 0})]
    ELSE ""

RemoveRepoItem(target, done) ==
    IF target = "" THEN done
    ELSE [done EXCEPT !.disk = removeRepoSource(target, done.disk).disk,
                      !.repos = @ \cup {target}]

RemovePackageItem(name, reg, sources, done) ==
    IF reg = "" THEN done
    ELSE [done EXCEPT !.disk = removePackageSource(name, reg, sources, done.disk).disk,
                      !.packages = @ \cup {<<name, reg>>}]

RemoveDetected(detected, sources, done) ==
    RemovePackageItem(detected.cleanSpec,
                      ActualRegistry(sources.packages, detected.cleanSpec, detected.registry),
                      sources, done)

RemoveItem(item, sources, done) ==
    IF isRepoSpec(item) \/ (Includes(item, "/") /\ ~Includes(item, ":"))
    THEN RemoveRepoItem(
            RepoTarget(item,
                       IF Len(Split(item, "/")) = 2 /\ ~StartsWith(item, "http")
                       THEN "github.com/" \o item ELSE item,
                       done.disk),
            done)
    ELSE RemoveDetected(detectRegistry(item), sources, done)

RECURSIVE RemoveLoop(_, _, _)
RemoveLoop(items, sources, done) ==
    IF items = <<>> THEN done
    ELSE RemoveLoop(Tail(items), sources, RemoveItem(Head(items), sources, done))

Remaining(sources, done) ==
    [packages |-> SelectSeq(sources.packages,
                            LAMBDA p : <<p.name, p.registry>> \notin done.packages),
     repos |-> SelectSeq(sources.repos, LAMBDA r : r.name \notin done.repos)]

RemoveFinish(project, done) ==
    IF done.packages = {} /\ done.repos = {} THEN project
    ELSE CommandDone(FALSE, <<>>,
            IF project.permission = "allowed"
            THEN updateAgentsMd(Remaining(project.index, done), project.files)
            ELSE updatePackageIndex(Remaining(project.index, done), project.files),
            done.disk, project.permission).project

removeCommand(items, project) ==
    RemoveFinish(project,
                 RemoveLoop(items, project.index,
                            [disk |-> project.disk, packages |-> {}, repos |-> {}]))

CleanOptions(packages, repos, reg) == [packages |-> packages, repos |-> repos, registry |-> reg]

Elements(entries) == {entries[i] : i \in 1..Len(entries)}

\* the directories left: those of the removed entries go unless a remaining
\* package needs them
CleanedDisk(dirs, packagesToRemove, reposToRemove, remainingPackages) ==
    {d \in dirs :
        ~(/\ d.path \in {extractRepoPath(p.path) : p \in Elements(packagesToRemove)}
                        \cup {r.path : r \in Elements(reposToRemove)}
          /\ d.path \notin {extractRepoPath(p.path) : p \in Elements(remainingPackages)})}

CleanSelected(project, packagesToRemove, remainingPackages, reposToRemove, remainingRepos) ==
    CommandDone(FALSE, <<>>,
        IF Len(packagesToRemove) + Len(reposToRemove) > 0
        THEN updateAgentsMd([packages |-> remainingPackages, repos |-> remainingRepos],
                            project.files)
        ELSE [index |-> project.index, files |-> project.files],
        CleanedDisk(project.disk, packagesToRemove, reposToRemove, remainingPackages),
        project.permission).project

CleanWith(project, options, cleanPackages, cleanRepos) ==
    CleanSelected(project,
        IF ~cleanPackages THEN <<>>
        ELSE IF options.registry # ""
        THEN SelectSeq(project.index.packages, LAMBDA p : p.registry = options.registry)
        ELSE project.index.packages,
        IF ~cleanPackages THEN project.index.packages
        ELSE IF options.registry # ""
        THEN SelectSeq(project.index.packages, LAMBDA p : p.registry # options.registry)
        ELSE <<>>,
        IF cleanRepos THEN project.index.repos ELSE <<>>,
        IF cleanRepos THEN <<>> ELSE project.index.repos)

cleanCommand(options, project) ==
    CleanWith(project, options,
              options.packages \/ (~options.packages /\ ~options.repos),
              options.repos \/ (~options.packages /\ ~options.repos /\ options.registry = ""))

-----------------------------------------------------------------------------
(* removePackageSource as a step: an index and a repos directory in, the
   directory it leaves and what it reports out *)

ReactPath == "repos/github.com/facebook/react"

ZodPath == "repos/github.com/colinhacks/zod"

\* the entries an index is drawn from: two packages of one monorepo, a package
\* of another registry with the name of the first and its repository, and a
\* package alone in its repository
RemoveEntries ==
    <<PackageEntry("react", "1.0.0", "npm", ReactPath \o "/packages/react"),
      PackageEntry("react-dom", "1.0.0", "npm", ReactPath \o "/packages/react-dom"),
      PackageEntry("react", "0.2.0", "pypi", ReactPath),
      PackageEntry("zod", "1.0.0", "npm", ZodPath)>>

RECURSIVE Chosen(_, _)
Chosen(entries, keep) ==
    IF entries = <<>> THEN <<>>
    ELSE (IF Head(entries) \in keep THEN <<Head(entries)>> ELSE <<>>)
         \o Chosen(Tail(entries), keep)

RemoveIndexes ==
    {[packages |-> Chosen(RemoveEntries, keep), repos |-> <<>>] :
        keep \in SUBSET Elements(RemoveEntries)}

RemoveDisks ==
    SUBSET {[path |-> ReactPath, tag |-> "v1.0.0"], [path |-> ZodPath, tag |-> "v1.0.0"]}

RemoveNames == {"react", "react-dom", "zod", "lodash"}

RemoveRegistries == {"npm", "pypi"}

InitRemove ==
    /\ index \in RemoveIndexes
    /\ disk \in RemoveDisks
    /\ ran = <<>>
    /\ permission = "denied"
    /\ projectFiles = ProjectFiles("plain", "plain", "absent")
    /\ batch = <<>>
    /\ world = <<>>
    /\ results = <<>>
    /\ cloneAttempts = <<>>
    /\ cloneLog = <<>>
    /\ fetchResult = <<>>
    /\ IdleResolver
    /\ IdleCompare
    /\ IdleNormalize
    /\ IdleRepo
    /\ IdleParse

Removal(name, reg, removal) ==
    /\ disk' = removal.disk
    /\ ran' = [name |-> name, registry |-> reg, removed |-> removal.removed,
               repoRemoved |-> removal.repoRemoved]
    /\ UNCHANGED <<index, permission, projectFiles, batch, world, results, cloneAttempts, cloneLog,
                   fetchResult, resolverVars, cmpVars, normVars, repoVars, parseVars>>

RemovePackageSource ==
    \E name \in RemoveNames, reg \in RemoveRegistries :
        Removal(name, reg, removePackageSource(name, reg, index, disk))

NextRemove == RemovePackageSource

SpecRemove == InitRemove /\ [][NextRemove]_vars

-----------------------------------------------------------------------------
(* fetchCommand as a step: a batch of specifiers and an environment in, the
   results and the project it leaves out *)

ReactUrl == "https://github.com/facebook/react"

ReactName == "github.com/facebook/react"

StoreSpecs ==
    {"react", "react@1.0.0", "react-dom", "facebook/react", "facebook/react#main",
     "maven:springframework"}

Batches == {<<s>> : s \in StoreSpecs} \cup {<<s, t>> : s \in StoreSpecs, t \in StoreSpecs}

Worlds ==
    {Environment(release, installed, tagged, down, unpublished) :
        release \in {"1.0.0", "2.0.0"}, installed \in {"", "1.0.0"}, tagged \in BOOLEAN,
        down \in {{}, {ReactUrl}}, unpublished \in {{}, {"react-dom"}, {ReactName}}}

\* the project the batch starts from: react was fetched at 1.0.0, then the
\* repository itself at main, with file modifications refused
StartProject ==
    Project([packages |-> <<PackageEntry("react", "1.0.0", "npm",
                                         ReactPath \o "/packages/react")>>,
             repos |-> <<RepoEntry(ReactName, "main", ReactPath)>>],
            {[path |-> ReactPath, tag |-> "main"]},
            "denied",
            ProjectFiles("plain", "plain", "absent"))

InitBatch ==
    /\ batch \in Batches
    /\ world \in Worlds
    /\ index = StartProject.index
    /\ disk = StartProject.disk
    /\ permission = StartProject.permission
    /\ projectFiles = StartProject.files
    /\ ran = <<>>
    /\ results = <<>>
    /\ cloneAttempts = <<>>
    /\ cloneLog = <<>>
    /\ fetchResult = <<>>
    /\ IdleResolver
    /\ IdleCompare
    /\ IdleNormalize
    /\ IdleRepo
    /\ IdleParse

Leaves(project) ==
    /\ index' = project.index
    /\ disk' = project.disk
    /\ permission' = project.permission
    /\ projectFiles' = project.files

BatchDone(done) ==
    /\ Leaves(done.project)
    /\ results' = done.results
    /\ ran' = [cmd |-> "fetch", thrown |-> done.thrown]
    /\ UNCHANGED <<batch, world, cloneAttempts, cloneLog, fetchResult, resolverVars, cmpVars,
                   normVars, repoVars, parseVars>>

FetchBatch ==
    /\ ran = <<>>
    /\ BatchDone(fetchCommand(batch, "unset", FALSE, world,
                              Project(index, disk, permission, projectFiles)))

NextBatch == FetchBatch

SpecBatch == InitBatch /\ [][NextBatch]_vars

-----------------------------------------------------------------------------
(* The commands as steps on one project: any sequence of fetch, remove and
   clean, each against some environment *)

StoreBatches ==
    {<<"react">>, <<"react-dom">>, <<"facebook/react">>, <<"maven:springframework">>,
     <<"react", "facebook/react">>}

\* everything answers, at release 1.0.0 or at 2.0.0; the repository cannot be
\* cloned
StoreWorlds ==
    {Environment("1.0.0", "", TRUE, {}, {}),
     Environment("2.0.0", "", TRUE, {}, {}),
     Environment("2.0.0", "", TRUE, {ReactUrl}, {})}

\* --modify or no flag, and what the prompt is answered
StoreFlags == {<<"unset", FALSE>>, <<"allowed", TRUE>>}

RemoveBatches == {<<"react">>, <<"facebook/react">>, <<"npm:react", "react-dom">>}

CleanChoices ==
    {CleanOptions(FALSE, FALSE, ""), CleanOptions(TRUE, FALSE, ""),
     CleanOptions(FALSE, TRUE, "")}

InitStore ==
    /\ index = NoSources
    /\ disk = {}
    /\ permission = "unset"
    /\ projectFiles = ProjectFiles("absent", "plain", "absent")
    /\ ran = <<>>
    /\ batch = <<>>
    /\ world = <<>>
    /\ results = <<>>
    /\ cloneAttempts = <<>>
    /\ cloneLog = <<>>
    /\ fetchResult = <<>>
    /\ IdleResolver
    /\ IdleCompare
    /\ IdleNormalize
    /\ IdleRepo
    /\ IdleParse

CommandLeaves(project) ==
    /\ Leaves(project)
    /\ UNCHANGED <<ran, batch, world, results, cloneAttempts, cloneLog, fetchResult, resolverVars,
                   cmpVars, normVars, repoVars, parseVars>>

FetchCommand ==
    \E specs \in StoreBatches, flag \in StoreFlags, env \in StoreWorlds :
        CommandLeaves(fetchCommand(specs, flag[1], flag[2], env,
                                   Project(index, disk, permission, projectFiles)).project)

RemoveCommand ==
    \E items \in RemoveBatches :
        CommandLeaves(removeCommand(items, Project(index, disk, permission, projectFiles)))

CleanCommand ==
    \E options \in CleanChoices :
        CommandLeaves(cleanCommand(options, Project(index, disk, permission, projectFiles)))

NextStore ==
    \/ FetchCommand
    \/ RemoveCommand
    \/ CleanCommand

SpecStore == InitStore /\ [][NextStore]_vars

-----------------------------------------------------------------------------
(* Fetches that all succeed: every package is published, every repository
   can be cloned and carries its version tags *)

FetchableBatches ==
    {<<"react">>, <<"react@1.0.0">>, <<"react-dom">>, <<"facebook/react">>,
     <<"facebook/react#v1.0.0">>, <<"react-dom", "react">>}

FetchableWorlds ==
    {Environment("1.0.0", "", TRUE, {}, {}), Environment("2.0.0", "", TRUE, {}, {}),
     Environment("2.0.0", "1.0.0", TRUE, {}, {})}

FetchAvailable ==
    \E specs \in FetchableBatches, flag \in StoreFlags, env \in FetchableWorlds :
        CommandLeaves(fetchCommand(specs, flag[1], flag[2], env,
                                   Project(index, disk, permission, projectFiles)).project)

NextFetches == FetchAvailable

SpecFetches == InitStore /\ [][NextFetches]_vars

-----------------------------------------------------------------------------
(* The properties checked of the resolvers, the ordering and the normalizers *)

\* whether every request of the resolution was answered with a document
RegistryAnswered ==
    CASE registry = "nuget" ->
           /\ metadata.serviceStatus = "200"
           /\ NuGetResources \subseteq metadata.resources
           /\ metadata.indexStatus = "200"
           /\ fetchRegistrationLeaves(metadata).error = ""
      [] registry = "crates" ->
           /\ metadata.status = "200"
           /\ requestedVersion = "" \/ metadata.versionStatus = "200"
      [] registry = "maven" -> metadata.searchStatus = "200"
      [] OTHER -> metadata.status = "200"

\* the versions the registry reported in those documents
ReportedVersions ==
    CASE registry = "nuget" ->
           {v \in {fetchRegistrationLeaves(metadata).leaves[i].version :
                     i \in 1..Len(fetchRegistrationLeaves(metadata).leaves)} : v # ""}
      [] registry = "crates" -> {metadata.versions[i].num : i \in 1..Len(metadata.versions)}
      [] registry = "maven" -> {metadata.versions[i] : i \in 1..Len(metadata.versions)}
      [] registry = "pypi" -> {metadata.releases[i].version : i \in 1..Len(metadata.releases)}
      [] OTHER -> {metadata.versions[i].version : i \in 1..Len(metadata.versions)}

\* the versions the registry reported in the answers fetched by a resolution
PublishedVersions == IF RegistryAnswered THEN ReportedVersions ELSE {}

\* the error kinds, read off the message of the thrown Error
IsNotFound(message) == Includes(message, "not found")

IsVersionResolutionFailure(message) == Includes(message, "No stable version found")

IsNoRepositoryMetadata(message) ==
    Includes(message, "No repository metadata found") \/ Includes(message, "No repository URL found")

\* C1: a successful npm, crates.io, NuGet or Packagist resolution returns a
\* version that is among the versions the registry reported in that resolution
C1_VersionIsPublished ==
    (pc = "done" /\ registry \in {"npm", "crates", "nuget", "packagist"} /\ outcome.ok)
        => outcome.version \in PublishedVersions

\* whether a published version is the one asked for: the same string, or for
\* NuGet the same string up to case
IsRequested(published) ==
    IF registry = "nuget" THEN ToLowerCase(published) = ToLowerCase(requestedVersion)
    ELSE published = requestedVersion

\* C2: with an explicit version the resolver returns that version and no
\* other, and when the registry answered without it the resolution fails with
\* NotFound
C2_ExplicitVersionOnly ==
    (pc = "done" /\ requestedVersion # "" /\ registry \in {"npm", "nuget", "packagist"})
        => /\ outcome.ok => IsRequested(outcome.version)
           /\ (PublishedVersions # {} /\ \A v \in PublishedVersions : ~IsRequested(v))
                => (~outcome.ok /\ IsNotFound(outcome.error))

\* the part of a version before its build metadata
VersionMain(version) == At(SplitLimit(version, "+", 2), 1)

\* the prerelease segment of a version: what follows the first hyphen of the
\* part before the build metadata, "" when there is none
PrereleaseSegment(version) ==
    IF Includes(VersionMain(version), "-")
    THEN SliceFrom(VersionMain(version), IndexOf(VersionMain(version), "-"))
    ELSE ""

VersionCore(version) == At(SplitLimit(VersionMain(version), "-", 2), 1)

BuildMetadata(version) == At(SplitLimit(version, "+", 2), 2)

\* the ordering rule as it is stated: numeric core, then release above
\* prerelease, then every identifier of the prerelease segments, then the
\* build metadata
OrderingRule(a, b) ==
    CompareAfterCore(compareCoreParts(coreParts(VersionCore(a)), coreParts(VersionCore(b)), 1),
                     PrereleaseSegment(a), PrereleaseSegment(b),
                     BuildMetadata(a), BuildMetadata(b))

StableVersions == {v \in PublishedVersions : PrereleaseSegment(v) = ""}

\* C3: with no version asked for and allowPrerelease off, the NuGet resolver
\* returns the highest of the published versions without a prerelease segment
C3_LatestStable ==
    (pc = "done" /\ registry = "nuget" /\ requestedVersion = "" /\ ~allowPrerelease
       /\ outcome.ok)
        => /\ outcome.version \in StableVersions
           /\ \A v \in StableVersions : OrderingRule(v, outcome.version) <= 0

\* whether a published version is a prerelease: a prerelease segment, or for
\* Packagist a development version
IsPrerelease(version) ==
    IF registry = "packagist" THEN PackagistIsDev([version |-> version])
    ELSE PrereleaseSegment(version) # ""

\* C4: with no version asked for, allowPrerelease off and only prereleases
\* published, the resolution fails with a VersionResolutionFailure that names
\* the package and says to ask for a prerelease explicitly
C4_OnlyPrereleaseFails ==
    (pc = "done" /\ registry \in {"nuget", "packagist"} /\ requestedVersion = ""
       /\ ~allowPrerelease /\ PublishedVersions # {}
       /\ \A v \in PublishedVersions : IsPrerelease(v))
        => /\ ~outcome.ok
           /\ IsVersionResolutionFailure(outcome.error)
           /\ Includes(outcome.error, packageName)
           /\ Includes(outcome.error, "explicitly")

\* C5: with no version asked for and allowPrerelease on, the NuGet resolver
\* returns the highest of all the published versions under the ordering rule
C5_LatestWithPrerelease ==
    (pc = "done" /\ registry = "nuget" /\ requestedVersion = "" /\ allowPrerelease
       /\ outcome.ok)
        => /\ outcome.version \in PublishedVersions
           /\ \A v \in PublishedVersions : OrderingRule(v, outcome.version) <= 0

\* C6: compareNuGetVersions orders two versions as the ordering rule does,
\* over every identifier of the prerelease segments
C6_ComparesByRule ==
    cmpPc = "done" => Sign(cmpResult) = Sign(OrderingRule(cmpA, cmpB))

\* what follows https:// in a URL, "" when it does not start with it
AfterHttps(url) == IF StartsWith(url, "https://") THEN SliceFrom(url, 8) ELSE ""

\* canonical: https://host/owner/repo and nothing more
IsCanonicalRepoUrl(url) ==
    /\ Len(Split(AfterHttps(url), "/")) = 3
    /\ \A i \in 1..3 : At(Split(AfterHttps(url), "/"), i) # ""
    /\ ~Includes(url, "@")
    /\ ~Includes(url, "?")
    /\ ~Includes(url, "#")
    /\ ~EndsWith(url, ".git")

\* C7: the repoUrl of every ResolvedPackage is canonical
C7_RepoUrlCanonical ==
    (pc = "done" /\ outcome.ok) => IsCanonicalRepoUrl(outcome.repoUrl)

\* what follows the scheme of a URL, or the user of an scp-like address
AfterScheme(url) ==
    IF Includes(url, "://") THEN SliceFrom(url, IndexOf(url, "://") + 2)
    ELSE url

\* what s starts with, up to the first character of stops
UpTo(s, stops) == SubSeq(s, 1, FirstOf(s, stops) - 1)

\* the authority without its userinfo, and what follows it
AfterUserinfo(rest) ==
    IF Includes(UpTo(rest, "/"), "@")
    THEN SliceFrom(rest, IndexOf(rest, "@"))
    ELSE rest

\* the host a URL names
HostOf(url) == UpTo(AfterUserinfo(AfterScheme(url)), "/:?#")

\* C8: no ResolvedPackage carries a repoUrl on a host other than github.com,
\* gitlab.com and bitbucket.org
C8_RepoUrlOnAllowedHost ==
    (pc = "done" /\ outcome.ok) => HostOf(outcome.repoUrl) \in ALLOWED_GIT_HOSTS

\* the path of a candidate URL once the query, the fragment, a /tree/ or
\* /blob/ tail, the trailing slashes and a .git suffix are dropped
StrippedPath(url) ==
    StripSuffix(
      StripTrailing(
        CutAt(CutAt(UpTo(SliceFrom(AfterUserinfo(AfterScheme(url)), Len(HostOf(url)) + 1),
                         "?#"),
                    "/tree/"), "/blob/"),
        "/"),
      ".git")

StrippedSegments(url) == FilterNonEmpty(Split(StrippedPath(url), "/"))

C10_Idempotent ==
    normPc = "twice" => normTwice = normOnce

\* the raw forms of the repository https://h/o/r
RawForms(h, o, r) ==
    {"git+https://" \o h \o "/" \o o \o "/" \o r \o ".git",
     "git://" \o h \o "/" \o o \o "/" \o r \o ".git",
     "ssh://git@" \o h \o "/" \o o \o "/" \o r \o ".git",
     "git@" \o h \o ":" \o o \o "/" \o r \o ".git",
     "https://" \o h \o "/" \o o \o "/" \o r \o ".git/tree/dev?x=1#frag"}

\* C11: on every allow-listed host h, each raw form of https://h/o/r (git+https,
\* git://, ssh://git@, git@h:, and https with .git, /tree/ref, query and
\* fragment) normalizes to exactly https://h/o/r
C11_RawFormsNormalize ==
    (normPc = "once" /\ normalizer = "nuget")
        => \A h \in ALLOWED_GIT_HOSTS :
             rawUrl \in RawForms(h, "a", "b") => normOnce = "https://" \o h \o "/a/b"

\* C12: every resolved package carries a non-empty gitTag, whatever the metadata
\* document said (a Maven POM whose <scm><tag> is present but empty included)
C12_GitTagNonEmpty ==
    (pc = "done" /\ outcome.ok) => outcome.gitTag # ""

\* C13: the clone step tries the package's gitTag first (the release tag of the
\* metadata, or else the conventional tag), then the remaining conventions,
\* the bare version last
C13_GitTagTriedFirst ==
    (pc = "fetched" /\ cloneAttempts # <<>>)
        => /\ cloneAttempts[1] = outcome.gitTag
           /\ cloneAttempts[Len(cloneAttempts)] \in {outcome.gitTag, outcome.version}

\* C14: every ResolvedRepo has a non-empty ref: the ref the caller gave, or
\* else the default branch the host reports
C14_RefIsGivenOrDefault ==
    (repoPc = "done" /\ resolvedRepo.ok)
        => /\ resolvedRepo.ref # ""
           /\ resolvedRepo.ref = (IF repoSpec.ref # "" THEN repoSpec.ref
                                  ELSE repoApi.default_branch)

\* the leaves of a NuGet resolution and the leaf of the version it targets
NuGetLeaves == fetchRegistrationLeaves(metadata).leaves

TargetedLeaf ==
    NuGetLeaves[findLeafByVersion(NuGetLeaves,
        resolveVersionFromLeaves(NuGetLeaves, packageName, requestedVersion,
                                 allowPrerelease).version)]

\* the git repository field and the project URL of a leaf or of the nuspec
RepositoryField(type, url) ==
    IF url # "" /\ (type = "" \/ ToLowerCase(type) = "git")
    THEN [source |-> "repository", url |-> url] ELSE NoCandidate

ProjectUrlField(url) ==
    IF url # "" THEN [source |-> "projectUrl", url |-> url] ELSE NoCandidate

NuspecRead == metadata.nuspecStatus = "200"

\* the targeted version's own candidates, best first
OwnCandidates ==
    <<RepositoryField(TargetedLeaf.repoType, TargetedLeaf.repoUrl),
      IF NuspecRead /\ metadata.nuspec.repositoryTag
      THEN RepositoryField(metadata.nuspec.type, metadata.nuspec.url)
      ELSE NoCandidate,
      ProjectUrlField(TargetedLeaf.projectUrl),
      IF NuspecRead THEN ProjectUrlField(metadata.nuspec.projectUrl) ELSE NoCandidate>>

\* the candidates of the sibling versions with the given source
SiblingCandidates(source) ==
    {c \in {RepositoryField(NuGetLeaves[i].repoType, NuGetLeaves[i].repoUrl) :
                i \in 1..Len(NuGetLeaves)}
           \cup {ProjectUrlField(NuGetLeaves[i].projectUrl) : i \in 1..Len(NuGetLeaves)} :
        c.source = source}

IsInvalidRepositoryUrl(message) == Includes(message, "Invalid non-cloneable")

\* the resolution got as far as choosing a candidate
CandidateChosen ==
    /\ pc = "done"
    /\ registry = "nuget"
    /\ \/ outcome.ok
       \/ IsInvalidRepositoryUrl(outcome.error)
       \/ IsNoRepositoryMetadata(outcome.error)

\* the outcome is the one candidate c gives, and nothing of another candidate
ChosenIs(c) ==
    IF normalizeNuGetRepoUrl(c.url) # ""
    THEN outcome.ok /\ outcome.repoUrl = normalizeNuGetRepoUrl(c.url)
    ELSE /\ ~outcome.ok
         /\ EndsWith(outcome.error, ": " \o c.url)
         /\ Includes(outcome.error, "Invalid non-cloneable " \o c.source \o " URL")

FirstCandidate(candidates) ==
    candidates[Min({i \in 1..Len(candidates) : candidates[i].source # ""})]

\* C15: the NuGet candidate is chosen by a fixed priority and is one candidate,
\* not a merge: of the targeted version's own metadata the leaf's repository,
\* then the nuspec's repository, then the leaf's project URL, then the nuspec's;
\* a sibling version's candidate (repository before project URL) only when the
\* targeted version has none of these
C15_CandidatePriority ==
    CandidateChosen
        => IF \E i \in 1..4 : OwnCandidates[i].source # ""
           THEN ChosenIs(FirstCandidate(OwnCandidates))
           ELSE IF SiblingCandidates("repository") # {}
           THEN \E c \in SiblingCandidates("repository") : ChosenIs(c)
           ELSE IF SiblingCandidates("projectUrl") # {}
           THEN \E c \in SiblingCandidates("projectUrl") : ChosenIs(c)
           ELSE ~outcome.ok /\ IsNoRepositoryMetadata(outcome.error)

\* C15 witness: the targeted leaf has only a project URL, the nuspec has a
\* repository, and the nuspec's repository is the one resolved
C15_Witness ==
    /\ CandidateChosen
    /\ outcome.ok
    /\ TargetedLeaf.repoUrl = ""
    /\ TargetedLeaf.projectUrl = "https://github.com/org/repo/"
    /\ NuspecRead
    /\ metadata.nuspec.url = "https://gitlab.com/org/repo.git"
    /\ outcome.repoUrl = "https://gitlab.com/org/repo"

\* "" for a request that was answered, else the status it failed with
Failure(status) == IF status = "200" THEN "" ELSE status

\* the first failure in a list of them, "" when there is none
FirstFailure(failures) ==
    IF \A i \in 1..Len(failures) : failures[i] = "" THEN ""
    ELSE failures[Min({i \in 1..Len(failures) : failures[i] # ""})]

\* the statuses of the registration pages fetched by their @id
PageFailures(pages) ==
    [i \in 1..Len(pages) |->
        IF Len(pages[i].items) = 0 /\ pages[i].id # "" THEN Failure(pages[i].status) ELSE ""]

\* whether the NuGet resolution comes to request the nuspec
NuspecRequested ==
    /\ RegistryAnswered
    /\ NuGetLeaves # <<>>
    /\ resolveVersionFromLeaves(NuGetLeaves, packageName, requestedVersion,
                                allowPrerelease).error = ""
    /\ RepositoryField(TargetedLeaf.repoType, TargetedLeaf.repoUrl).source = ""

\* whether the Maven resolution comes to request the POM
PomRequested ==
    /\ metadata.searchStatus = "200"
    /\ IF requestedVersion = "" THEN metadata.versions # <<>>
       ELSE \E i \in 1..Len(metadata.versions) : metadata.versions[i] = requestedVersion

\* the status of the first metadata request of the resolution that failed, ""
\* when every request made was answered
FailedRequest ==
    CASE registry = "nuget" ->
           IF "RegistrationsBaseUrl" \notin metadata.resources
              \/ "PackageBaseAddress" \notin metadata.resources
           THEN Failure(metadata.serviceStatus)
           ELSE FirstFailure(<<Failure(metadata.serviceStatus), Failure(metadata.indexStatus)>>
                             \o PageFailures(metadata.pages)
                             \o <<IF NuspecRequested THEN Failure(metadata.nuspecStatus)
                                  ELSE "">>)
      [] registry = "crates" ->
           FirstFailure(<<Failure(metadata.status),
                          IF requestedVersion = "" THEN ""
                          ELSE Failure(CrateVersionStatus(metadata, requestedVersion))>>)
      [] registry = "maven" ->
           FirstFailure(<<Failure(metadata.searchStatus),
                          IF PomRequested THEN Failure(metadata.pom.status) ELSE "">>)
      [] OTHER -> Failure(metadata.status)

IsTransportError(message) == StartsWith(message, "Failed to ")

\* C16: when a metadata request of a resolution fails, the resolution fails
\* with it: a 404 as NotFound and not as a transport error, any other failure
\* as a transport error and not as NotFound or missing repository metadata
C16_FailuresClassified ==
    (pc = "done" /\ FailedRequest # "")
        => /\ ~outcome.ok
           /\ IF FailedRequest = "404"
              THEN IsNotFound(outcome.error) /\ ~IsTransportError(outcome.error)
              ELSE /\ IsTransportError(outcome.error)
                   /\ ~IsNotFound(outcome.error)
                   /\ ~IsNoRepositoryMetadata(outcome.error)

NameParsers == {"npm", "crates", "nuget", "pypi", "packagist"}

\* C17: each name parser round-trips: a valid name joined to a version by a
\* separator the registry accepts parses to exactly that name and version, and
\* the name alone parses to the name with no version
C17_RoundTrip ==
    (parsePc = "parsed" /\ parser \in NameParsers)
        => \A n \in SpecNames(parser) :
             /\ specText = n => parseResult = NameVersion(n, "")
             /\ \A sep \in Separators(parser), v \in SpecVersions(parser) :
                  specText = n \o sep \o v => parseResult = NameVersion(n, v)

ValidGroupIds == {g \in MavenGroupIds : Trim(g) # ""}

ValidArtifactIds == MavenArtifactIds \ {""}

InvalidMavenTexts ==
    {t \in MavenTexts \cup UnprefixedTexts : ~Includes(t, ":")}
    \cup {MavenText(g, a, v) : g \in MavenGroupIds \ ValidGroupIds, a \in MavenArtifactIds,
                               v \in MavenVersionParts}
    \cup {MavenText(g, a, v) : g \in MavenGroupIds, a \in {""}, v \in MavenVersionParts}

MavenPrefixTexts == {p \in PrefixTexts : ToLowerCase(p) \in {"maven:", "mvn:", "java:"}}

\* the specifier is an invalid Maven specifier, as it is or behind a Maven prefix
IsInvalidMaven ==
    \/ parser = "maven" /\ specText \in InvalidMavenTexts
    \/ /\ parser = "package"
       /\ \E p \in MavenPrefixTexts, t \in InvalidMavenTexts, pad \in {"", " "} :
            specText = pad \o p \o t \o pad

IsSpecParseError(result) ==
    ~result.ok /\ StartsWith(result.error, "Invalid Maven specifier")

\* C19: a Maven specifier with no colon, an empty groupId or an empty
\* artifactId is rejected with a parse error, and no resolver is called for it,
\* so that no request leaves for the registry
C19_InvalidMavenRejected ==
    IsInvalidMaven
        => /\ dispatched = <<>>
           /\ parsePc # "resolving"
           /\ parsePc = "parsed" => IsSpecParseError(parseResult)

\* C19 witness: a Maven-prefixed specifier with no colon has been rejected by
\* parsePackageSpec, with no resolver called
C19_Witness ==
    /\ parser = "package"
    /\ specText = "maven:springframework"
    /\ parsePc = "parsed"
    /\ IsSpecParseError(parseResult)
    /\ dispatched = <<>>

\* the registry the claim gives a prefix
ClaimedRegistry(prefix) ==
    CASE prefix = "npm:" -> "npm"
      [] prefix \in {"pypi:", "pip:", "python:"} -> "pypi"
      [] prefix \in {"crates:", "cargo:", "rust:"} -> "crates"
      [] prefix \in {"packagist:", "composer:", "php:"} -> "packagist"
      [] prefix \in {"maven:", "mvn:", "java:"} -> "maven"

\* C20: detectRegistry recognises every prefix in any case, returns its registry
\* with the trimmed input less exactly that prefix, and gives an input with no
\* prefix to npm with the trimmed input unchanged
C20_PrefixesDetected ==
    (parsePc = "parsed" /\ parser = "detect")
        => /\ \A p \in PrefixTexts, t \in UnprefixedTexts, pad \in {"", " "} :
                specText = pad \o p \o t \o pad
                    => parseResult = Detected(ClaimedRegistry(ToLowerCase(p)), t)
           /\ (\A p \in PrefixTexts : ~StartsWith(Trim(specText), p))
                    => parseResult = Detected("npm", Trim(specText))

\* the input, trimmed, starts with a registry prefix in any letter case
CarriesRegistryPrefix(t) ==
    \E p \in PrefixTexts : StartsWith(ToLowerCase(t), ToLowerCase(p))

\* owner/repo with a single slash, both sides in the identifier grammar, the
\* repo optionally followed by @ref or #ref
OwnerRepoForm(t) ==
    /\ Cardinality({i \in 1..Len(t) : Ch(t, i) = "/"}) = 1
    /\ ValidOwner(SubSeq(t, 1, IndexOf(t, "/") - 1))
    /\ ValidRepo(UpTo(SliceFrom(t, IndexOf(t, "/")), "@#"))

\* any text that is an http or https URL
IsHttpUrlText(t) == ParseUrl(t).valid /\ ParseUrl(t).scheme \in {"http", "https"}

\* an http:// or https:// URL whose path has at least an owner and a repo
IsRepoUrlText(t) ==
    /\ MatchesHttp(t)
    /\ ParseUrl(t).valid
    /\ Cardinality({i \in 1..Len(Split(ParseUrl(t).pathname, "/")) :
                        Split(ParseUrl(t).pathname, "/")[i] # ""}) >= 2

RepoShapedButUrl(t) ==
    \/ HasHostPrefix(t)
    \/ \E h \in SUPPORTED_HOSTS : StartsWith(t, h \o "/")
    \/ OwnerRepoForm(t)

\* what the claim says of the route taken for trimmed input t, given whether t
\* is repo-shaped
RoutedAsClaimed(t, repoShaped) ==
    /\ CarriesRegistryPrefix(t) => parseResult.inputType = "package"
    /\ ~CarriesRegistryPrefix(t) => (parseResult.inputType = "repo" <=> repoShaped)
    /\ (~CarriesRegistryPrefix(t) /\ ~repoShaped)
            => /\ parseResult.inputType = "package"
               /\ parseResult.packageSpec.ok
               /\ parseResult.packageSpec.registry = "npm"
    /\ StartsWith(t, "@") => parseResult.inputType = "package"

\* C21 as stated: detectInputType returns "package" for every input with a
\* registry prefix, "repo" for an unprefixed input exactly when it is
\* repo-shaped (host prefix, http(s) URL, known-host path, owner/repo), and
\* "package" for every other input, which is parsed as an npm package
C21_InputTypeAsStated ==
    (parser = "inputType" /\ parsePc = "parsed")
        => RoutedAsClaimed(Trim(specText),
                           RepoShapedButUrl(Trim(specText)) \/ IsHttpUrlText(Trim(specText)))

\* C21 amended: the same, with an http(s) URL repo-shaped only when it is
\* written with a lower-case http:// or https:// and its path has at least two
\* segments
C21_InputType ==
    (parser = "inputType" /\ parsePc = "parsed")
        => RoutedAsClaimed(Trim(specText),
                           RepoShapedButUrl(Trim(specText)) \/ IsRepoUrlText(Trim(specText)))

\* C21 witness: a prefixed input with a repo-shaped remainder went to the
\* package branch
C21_Witness ==
    /\ parser = "inputType"
    /\ parsePc = "parsed"
    /\ specText = "npm:vercel/ai"
    /\ parseResult.inputType = "package"

-----------------------------------------------------------------------------
(* The properties checked of the commands *)

\* what fetchCommand does with one specifier handed alone to the same project
\* in the same environment
FetchedAlone(spec) == fetchCommand(<<spec>>, "unset", FALSE, world, StartProject)

\* C22: fetchCommand returns one result per specifier, in the order given,
\* each the result the specifier gets when fetched alone; a specifier that
\* cannot be parsed, resolved or cloned gets a failed result of its own and the
\* specifiers after it are still processed.
C22_BatchIndependent ==
    ran # <<>> =>
        /\ ~ran.thrown
        /\ Len(results) = Len(batch)
        /\ \A i \in 1..Len(batch) :
              IF FetchedAlone(batch[i]).thrown
              THEN ~results[i].success /\ results[i].error # ""
              ELSE results[i] = FetchedAlone(batch[i]).results[1]

\* another package entry of the index lies in the repository of the entry at
SharesRepository(packages, at) ==
    \E i \in 1..Len(packages) :
        i # at /\ extractRepoPath(packages[i].path) = extractRepoPath(packages[at].path)

RemovedAsClaimed(packages, at, before, after, report) ==
    IF at = 0 THEN ~report.removed /\ ~report.repoRemoved /\ after = before
    ELSE IF SharesRepository(packages, at) THEN ~report.repoRemoved /\ after = before
    ELSE after = {d \in before : d.path # extractRepoPath(packages[at].path)}

\* C23: removePackageSource deletes the repository directory of the package
\* exactly when no other package entry lies under the same
\* repos/host/owner/repo path; a shared directory is left in place, and for a
\* package with no entry it reports removed = false and deletes nothing.
C23_SharedRepoKept ==
    [][RemovedAsClaimed(index.packages,
                        FindPackage(index.packages, ran'.name, ran'.registry),
                        disk, disk', ran')]_vars

\* C23 witness: react was removed while react-dom is indexed in the same
\* repository, and the directory is still there
C23_Witness ==
    /\ ran # <<>>
    /\ ran.name = "react"
    /\ ran.registry = "npm"
    /\ ran.removed
    /\ ~ran.repoRemoved
    /\ FindPackage(index.packages, "react", "npm") > 0
    /\ FindPackage(index.packages, "react-dom", "npm") > 0
    /\ DirExists(disk, ReactPath)

\* C24: .gitignore, tsconfig.json and AGENTS.md are modified only when file
\* modification is permitted: no fetch, remove or clean that runs with the
\* permission in force denied (the --modify flag, else the stored setting,
\* else the answer to the prompt) writes any of the three.
C24_DeniedWritesNothing ==
    [][permission' = "denied" => projectFiles' = projectFiles]_vars

\* C28: whatever fetch, remove and clean commands ran, clone failures
\* included, every package entry and every repository entry of sources.json
\* has its repository directory on disk.
C28_EntriesOnDisk ==
    /\ \A i \in 1..Len(index.packages) :
            DirExists(disk, extractRepoPath(index.packages[i].path))
    /\ \A i \in 1..Len(index.repos) : DirExists(disk, index.repos[i].path)

\* the refs a clone for a version leaves checked out: one of the tags tried,
\* or the default branch
RefsOfVersion(version) == {"v" \o version, version, "HEAD"}

\* C29: after fetches that all succeeded, the source at each package entry's
\* path is the one fetched for the entry's recorded version: fetching another
\* package or repository that resolves to the same repository directory at a
\* different version does not change it.
C29_SourceMatchesVersion ==
    \A i \in 1..Len(index.packages) :
        \E d \in disk : /\ d.path = extractRepoPath(index.packages[i].path)
                        /\ d.tag \in RefsOfVersion(index.packages[i].version)

\* the clones with --branch are the first entries of the candidate list, in
\* its order, one clone per entry
CandidatesInOrder(clones, candidates) ==
    \A i \in 1..Len(clones) :
        clones[i].branch # "" => i <= Len(candidates) /\ clones[i].branch = candidates[i]

\* the clone of the default branch comes last, once, after every candidate
DefaultLast(clones, candidates) ==
    \A i \in 1..Len(clones) :
        clones[i].branch = "" => i = Len(clones) /\ i = Len(candidates) + 1

Occurrences(made, request) == Cardinality({i \in 1..Len(made) : made[i] = request})

\* the pages of the registration index that hold no leaves of their own
RemotePages(pages) == {i \in 1..Len(pages) : Len(pages[i].items) = 0 /\ pages[i].id # ""}

\* the NuGet resolution came to select a version
VersionSelected ==
    /\ RegistryAnswered
    /\ NuGetLeaves # <<>>
    /\ resolveVersionFromLeaves(NuGetLeaves, packageName, requestedVersion,
                                allowPrerelease).error = ""

IsNuspecRequest(request) == StartsWith(request, "nuspec ")

\* the registration index is asked for at most once, every page without leaves
\* of its own is fetched once by its @id before a version is selected and no
\* other page ever is, and the nuspec comes after all of them, at most once
LeavesBeforeVersion ==
    /\ Occurrences(requests, "registration index") <= 1
    /\ \A i \in 1..Len(metadata.pages) :
          Occurrences(requests, "page " \o metadata.pages[i].id)
              <= (IF i \in RemotePages(metadata.pages) THEN 1 ELSE 0)
    /\ VersionSelected
          => /\ requests[1] = "service index"
             /\ requests[2] = "registration index"
             /\ \A i \in RemotePages(metadata.pages) :
                   requests[2 + Cardinality({j \in RemotePages(metadata.pages) : j <= i})]
                       = "page " \o metadata.pages[i].id
    /\ \A i \in 1..Len(requests) : IsNuspecRequest(requests[i]) => i = Len(requests)

\* C26 as stated: resolveNuGetPackage fetches the registration index once and
\* obtains the leaves of every page, inline or by one fetch of the page's @id,
\* before it selects a version; it fetches the nuspec only when the selected
\* leaf carries no repository field, so with a repository field on the leaf and
\* every page inline it makes exactly two requests
C26_RequestsAsStated ==
    (pc # "start" /\ registry = "nuget")
        => /\ LeavesBeforeVersion
           /\ VersionSelected
                 => /\ IsNuspecRequest(requests[Len(requests)]) => TargetedLeaf.repoUrl = ""
                    /\ (TargetedLeaf.repoUrl # "" /\ RemotePages(metadata.pages) = {})
                          => Len(requests) = 2

\* C26 amended: the same, the repository field being one that names a git
\* repository: a url, with the type git or no type
C26_Requests ==
    (pc # "start" /\ registry = "nuget")
        => /\ LeavesBeforeVersion
           /\ VersionSelected
                 => /\ IsNuspecRequest(requests[Len(requests)])
                          = (RepositoryField(TargetedLeaf.repoType,
                                             TargetedLeaf.repoUrl).source = "")
                    /\ (/\ RepositoryField(TargetedLeaf.repoType,
                                           TargetedLeaf.repoUrl).source # ""
                        /\ RemotePages(metadata.pages) = {})
                          => requests = <<"service index", "registration index">>

\* C26 witness: the leaf of the resolved version names a git repository, the
\* one page is inline, and two requests were made
C26_Witness ==
    /\ pc = "done"
    /\ registry = "nuget"
    /\ outcome.ok
    /\ TargetedLeaf.repoUrl = "https://github.com/org/repo.git"
    /\ Len(metadata.pages) = 1
    /\ requests = <<"service index", "registration index">>

\* the version step of a Maven resolution returned a version: the search
\* answered and knows the requested version, or any version when none is
\* requested
MavenVersionResolved ==
    /\ metadata.searchStatus = "200"
    /\ IF requestedVersion = "" THEN Len(metadata.versions) > 0
       ELSE \E i \in 1..Len(metadata.versions) : metadata.versions[i] = requestedVersion

\* C27: resolveMavenPackage requests the POM only after the version step (the
\* latest-version lookup, or the existence check of an explicit version) has
\* returned a version: the POM request follows that lookup, and there is no
\* POM request at all when the step fails.
C27_PomAfterVersion ==
    (pc # "start" /\ registry = "maven")
        => /\ \A i \in 1..Len(requests) :
                 requests[i] = "pom"
                     => /\ i = 2
                        /\ requests[1] = (IF requestedVersion = "" THEN "search latest"
                                          ELSE "search version")
                        /\ MavenVersionResolved
           /\ ~MavenVersionResolved => Occurrences(requests, "pom") = 0

\* C27 witness: the existence check of 6.0.0 succeeded and the POM was
\* requested after it
C27_Witness ==
    /\ pc = "done"
    /\ registry = "maven"
    /\ requestedVersion = "6.0.0"
    /\ outcome.ok
    /\ requests = <<"search version", "pom">>

\* the leaves listed in another order
Reordered(leaves, order) == [i \in 1..Len(leaves) |-> leaves[order[i]]]

\* C30: the latest version NuGet resolution selects does not depend on the
\* order the registration leaves are listed in: with no explicit version and
\* either setting of allowPrerelease, resolveVersionFromLeaves gives the same
\* answer for every permutation of the leaves.
C30_OrderIndependent ==
    (pc # "start" /\ registry = "nuget" /\ requestedVersion = "" /\ RegistryAnswered
        /\ NuGetLeaves # <<>>)
        => \A order \in Permutations(1..Len(NuGetLeaves)) :
              resolveVersionFromLeaves(Reordered(NuGetLeaves, order), packageName, "",
                                       allowPrerelease)
                  = resolveVersionFromLeaves(NuGetLeaves, packageName, "", allowPrerelease)

====
